---- MODULE Spec2Model ----
(***************************************************************************)
(* Exchange-abstraction layer of nof1.ai: the Gate.io client               *)
(* (src/services/gateClient.ts) and the OKX client                         *)
(* (src/services/exchangeConfig.ts, src/services/okxClient.ts).            *)
(*                                                                         *)
(* The module holds one state machine per concern, each with its own       *)
(* specification over the shared variable list:                            *)
(*   SpecRetry     - the retry loop wrapped around one remote call         *)
(*   SpecOrder     - placeOrder of both venue clients                      *)
(*   SpecSettle    - calculateSettlementHistoryFromOrders                  *)
(*   SpecSymbol    - gateToOkxSymbol / okxToGateSymbol                     *)
(*   SpecStatus    - the status of the orders the clients return           *)
(*   SpecCancel    - cancelOrder                                           *)
(*   SpecSurface   - what a public operation does when its call fails      *)
(*   SpecPositions - getPositions                                          *)
(*   SpecConvert   - the format converter (src/unnamed/part_000)           *)
(*   SpecPair      - two concurrent placeOrder calls on one client         *)
(*   SpecExchangeType - the two getCurrentExchangeType functions           *)
(* A specification leaves the variables of the other machines at Idle.     *)
(***************************************************************************)
EXTENDS Integers, Sequences, FiniteSets, TLC

VARIABLES
    \* ---- retry loop (one call of a retry-wrapped operation)
    op,          \* the operation called
    retries,     \* its `retries` argument
    i,           \* the loop counter
    lastError,   \* the `lastError` local
    rpc,         \* position in the loop
    calls,       \* remote invocations made so far
    raised,      \* error objects raised by the remote call, in order
    waits,       \* backoff delays slept so far (ms), in order
    thrown,      \* what the operation threw to its caller
    \* ---- symbol translation (a string is a sequence of characters)
    symbol,      \* the string given to the first translator call
    symCalls,    \* the translator calls made so far: [fn, arg, result]
    \* ---- placeOrder (one call)
    venue,         \* the client called: "gate" (gateClient.ts), "okx" (exchangeConfig.ts)
    params,        \* the `params` argument
    opc,           \* position in placeOrder
    contractInfo,  \* the `contractInfo` local
    markPrice,     \* the `markPrice` local (milli), Absent before the ticker read
    clampedPrice,  \* the price after the deviation check, before rounding (micro)
    adjustedPrice, \* the `adjustedPrice` local (micro)
    adjustedSize,  \* the `adjustedSize` local (centi)
    submitted,     \* the orders handed to the exchange SDK, in order
    caught,        \* the error caught by the outer catch
    othrown,       \* the error placeOrder threw
    oresult,       \* index in `submitted` of the order whose result was returned
    ocalls,        \* the remote calls of the placeOrder invocation, in the order made
    \* ---- calculateSettlementHistoryFromOrders (one call)
    sclient,             \* the file of the OkxClient called
    limit,               \* the `limit` argument
    spc,                 \* position in the method
    orderHistory,        \* the `orderHistory` local
    tradeHistory,        \* the `tradeHistory` local
    fundingRateHistory,  \* the `fundingRateHistory` local
    settlementRecords,   \* the `settlementRecords` local when the loop ends
    sresult,             \* the list returned
    \* ---- the status of an order a client operation returns
    statusOp,     \* the operation building the order
    status,       \* the `status` of the exchange's order object
    sCode,        \* the `info.sCode` of the exchange's cancel response
    orderStatus,  \* the `status` of the order returned
    timestamp,    \* the `timestamp` of the exchange's order, in ms (0: none)
    orderFinish,  \* the `finishAs` and `finishTime` of the order returned
    \* ---- cancelOrder (one call)
    cclient,      \* the file of the client called
    cretries,     \* the `retries` argument (OKX clients)
    exState,      \* the state of the order at the exchange
    atCall,       \* the state of the order at the exchange when cancelOrder was called
    ci,           \* the loop counter `i`
    cLastError,   \* the `lastError` local
    cpc,          \* position in cancelOrder
    cresult,      \* the order cancelOrder returned
    cthrown,      \* the error cancelOrder threw
    \* ---- one call of a public operation, seen from its caller
    fop,          \* the operation called
    fretries,     \* its `retries`
    fi,           \* the loop counter
    fLastError,   \* the `lastError` local
    flast,        \* the outcome of the latest remote call
    fpc,          \* position in the operation
    freturned,    \* the value returned
    fthrown,      \* the error thrown
    \* ---- getPositions (one call)
    pclient,       \* the file of the client called
    pretries,      \* the `retries` argument
    pidx,          \* the loop counter `i`
    exPositions,   \* the positions the account holds at the exchange
    ppc,           \* position in getPositions
    positions,     \* the list returned
    pthrown,       \* whether getPositions threw
    \* ---- the format converter (one call)
    cvCall,        \* the method called and the exchange given to it
    cvData,        \* the `data` argument: a function from its fields to their values
    cvpc,          \* position in the call
    cvBranch,      \* the private method the call went to
    cvResult,      \* the object returned
    pairVenue,     \* the client two concurrent placeOrder calls are made on
    pairParams,    \* the parameters both calls are given
    pairPc,        \* where each call is
    frames,        \* the local variables of each invocation
    reads,         \* what the exchange answered to each call's reads
    exchangeOrders, \* the orders the exchange received: the call and the order
    DEFAULT_EXCHANGE, \* process.env.DEFAULT_EXCHANGE
    configType,    \* what getCurrentExchangeType of exchangeConfig.ts returned
    converterType  \* what getCurrentExchangeType of the converter module returned

retryVars == <<op, retries, i, lastError, rpc, calls, raised, waits, thrown>>
symbolVars == <<symbol, symCalls>>
orderVars == <<venue, params, opc, contractInfo, markPrice, clampedPrice,
               adjustedPrice, adjustedSize, submitted, caught, othrown, oresult,
               ocalls>>

settleVars == <<sclient, limit, spc, orderHistory, tradeHistory,
                fundingRateHistory, settlementRecords, sresult>>

statusVars == <<statusOp, status, sCode, orderStatus, timestamp, orderFinish>>

cancelVars == <<cclient, cretries, exState, atCall, ci, cLastError, cpc, cresult, cthrown>>

surfaceVars == <<fop, fretries, fi, fLastError, flast, fpc, freturned, fthrown>>

positionVars == <<pclient, pretries, pidx, exPositions, ppc, positions, pthrown>>

convertVars == <<cvCall, cvData, cvpc, cvBranch, cvResult>>

pairVars == <<pairVenue, pairParams, pairPc, frames, reads, exchangeOrders>>
exchangeTypeVars == <<DEFAULT_EXCHANGE, configType, converterType>>
lateVars == <<pairVars, exchangeTypeVars>>
earlyVars == <<retryVars, symbolVars, orderVars, settleVars, statusVars,
               cancelVars, surfaceVars, positionVars, convertVars>>

moreVars == <<cancelVars, surfaceVars, positionVars, convertVars, lateVars>>

vars == <<retryVars, symbolVars, orderVars, settleVars, statusVars, moreVars>>

Idle == "idle"

(***************************************************************************)
(* The retry loop                                                          *)
(***************************************************************************)

\* Largest `retries` argument explored.
MaxRetries == 4

\* `let lastError: any` / `let lastError: Error | null = null` before a failure.
NoError == 0
\* The error object built by `new Error("...")` in `throw lastError || new Error(...)`.
NewError == -1

\* let retries = 3 of getSettlementHistory (exchangeConfig.ts)
SettlementRetries == 3

\* for (let i = 0; i <= retries; i++) ... throw lastError
InclusiveLoop == "i <= retries"
\* for (let i = 0; i < retries; i++) ... throw lastError || new Error(...)
ExclusiveLoop == "i < retries"

\* setTimeout(resolve, 300 * (i + 1))
Linear300 == "linear300"
\* setTimeout(resolve, 1000 * (i + 1))
Linear1000 == "linear1000"
\* Math.min(1000 * Math.pow(2, i), 5000)
Exponential == "exponential"
\* setTimeout(resolve, 1000 * (4 - retries)), retries counting down from 3
Countdown1000 == "countdown1000"

GateRetryOps ==
    { [client |-> "gate", name |-> n, loop |-> InclusiveLoop, backoff |-> Linear300] :
        n \in {"getFuturesAccount", "getPositions", "getFuturesTicker", "getFuturesCandles"} }

OkxInclusiveOps ==
    { [client |-> "okx", name |-> n, loop |-> InclusiveLoop, backoff |-> Exponential] :
        n \in {"getFuturesAccount", "getPositions", "getFuturesTicker"} }
    \cup
    { [client |-> "okx", name |-> n, loop |-> InclusiveLoop, backoff |-> Linear300] :
        n \in {"getFuturesCandles", "getAllContracts"} }

OkxExclusiveOps ==
    { [client |-> "okx", name |-> n, loop |-> ExclusiveLoop, backoff |-> Linear1000] :
        n \in {"getOrder", "cancelOrder", "getFundingRate", "getMarkets",
               "getOrderBook", "getMyTrades", "getPositionHistory"} }

RetryOps == GateRetryOps \cup OkxInclusiveOps \cup OkxExclusiveOps

\* getSettlementHistory: while (retries > 0) with retries-- in the catch block,
\* which is the exclusive loop over i = 3 - retries.
SettlementOps ==
    { [client |-> "okx", name |-> "getSettlementHistory", loop |-> ExclusiveLoop,
       backoff |-> Countdown1000] }

Pow2(n) == IF n <= 0 THEN 1 ELSE IF n = 1 THEN 2 ELSE IF n = 2 THEN 4
           ELSE IF n = 3 THEN 8 ELSE 16

Min(a, b) == IF a <= b THEN a ELSE b
Max(a, b) == IF a >= b THEN a ELSE b
Abs(x) == IF x < 0 THEN -x ELSE x

\* The loop condition of the for statement.
LoopCondition(o, idx, n) ==
    IF o.loop = InclusiveLoop THEN idx <= n ELSE idx < n

\* The condition under which a failed attempt sleeps before the next one.
WaitCondition(o, idx, n) ==
    IF o.loop = InclusiveLoop THEN idx < n ELSE idx < n - 1

\* The exponential delay without its cap.
BackoffDelay_Uncapped(o, idx) ==
    CASE o.backoff = Linear300 -> 300 * (idx + 1)
      [] o.backoff = Linear1000 -> 1000 * (idx + 1)
      [] o.backoff = Countdown1000 -> 1000 * (4 - (SettlementRetries - idx))
      [] OTHER -> 1000 * Pow2(idx)

\* The delay slept after failed attempt idx.
BackoffDelay(o, idx) ==
    CASE o.backoff = Linear300 -> 300 * (idx + 1)
      [] o.backoff = Linear1000 -> 1000 * (idx + 1)
      [] o.backoff = Countdown1000 -> 1000 * (4 - (SettlementRetries - idx))
      [] OTHER -> Min(1000 * Pow2(idx), 5000)

\* What the statement after the loop throws.
ThrownAfterLoop(o, err) ==
    IF o.loop = InclusiveLoop THEN err
    ELSE IF err # NoError THEN err ELSE NewError

RetryIdle ==
    /\ op = Idle /\ retries = 0 /\ i = 0 /\ lastError = NoError /\ rpc = Idle
    /\ calls = 0 /\ raised = <<>> /\ waits = <<>> /\ thrown = NoError

SymbolIdle == symbol = <<>> /\ symCalls = <<>>

OrderIdle ==
    /\ venue = Idle /\ params = Idle /\ opc = Idle /\ contractInfo = Idle
    /\ markPrice = 0 /\ clampedPrice = 0 /\ adjustedPrice = 0 /\ adjustedSize = 0
    /\ submitted = <<>> /\ caught = Idle /\ othrown = Idle /\ oresult = 0
    /\ ocalls = <<>>

SettleIdle ==
    /\ sclient = Idle /\ limit = 0 /\ spc = Idle /\ orderHistory = <<>>
    /\ tradeHistory = <<>> /\ fundingRateHistory = <<>>
    /\ settlementRecords = <<>> /\ sresult = <<>>

StatusIdle ==
    /\ statusOp = Idle /\ status = Idle /\ sCode = 0 /\ orderStatus = Idle
    /\ timestamp = 0 /\ orderFinish = Idle

CancelIdle ==
    /\ cclient = Idle /\ cretries = 0 /\ exState = Idle /\ atCall = Idle /\ ci = 0
    /\ cLastError = Idle /\ cpc = Idle /\ cresult = Idle /\ cthrown = Idle

SurfaceIdle ==
    /\ fop = Idle /\ fretries = 0 /\ fi = 0 /\ fLastError = NoError /\ flast = Idle
    /\ fpc = Idle /\ freturned = Idle /\ fthrown = NoError

PositionsIdle ==
    /\ pclient = Idle /\ pretries = 0 /\ pidx = 0 /\ exPositions = <<>> /\ ppc = Idle
    /\ positions = <<>> /\ pthrown = FALSE

ConvertIdle ==
    /\ cvCall = Idle /\ cvData = <<>> /\ cvpc = Idle /\ cvBranch = Idle /\ cvResult = <<>>

PairIdle ==
    /\ pairVenue = Idle /\ pairParams = Idle /\ pairPc = Idle /\ frames = Idle
    /\ reads = Idle /\ exchangeOrders = <<>>

ExchangeTypeIdle ==
    DEFAULT_EXCHANGE = Idle /\ configType = Idle /\ converterType = Idle

LateIdle == PairIdle /\ ExchangeTypeIdle

MoreIdle == CancelIdle /\ SurfaceIdle /\ PositionsIdle /\ ConvertIdle /\ LateIdle

EarlyIdle ==
    /\ RetryIdle /\ SymbolIdle /\ OrderIdle /\ SettleIdle /\ StatusIdle
    /\ CancelIdle /\ SurfaceIdle /\ PositionsIdle /\ ConvertIdle

InitRetry ==
    /\ SymbolIdle
    /\ OrderIdle
    /\ SettleIdle
    /\ StatusIdle
    /\ MoreIdle
    /\ op \in RetryOps \cup SettlementOps
    /\ retries \in (IF op \in SettlementOps THEN {SettlementRetries} ELSE 0..MaxRetries)
    /\ i = 0
    /\ lastError = NoError
    /\ rpc = "loop"
    /\ calls = 0
    /\ raised = <<>>
    /\ waits = <<>>
    /\ thrown = NoError

\* A pass whose remote call resolves and is then issued once more.
AttemptSucceeds_CallsAgain ==
    /\ rpc = "loop"
    /\ LoopCondition(op, i, retries)
    /\ calls' = calls + 2
    /\ rpc' = "returned"
    /\ UNCHANGED <<op, retries, i, lastError, raised, waits, thrown>>
    /\ UNCHANGED <<symbolVars, orderVars, settleVars, statusVars, moreVars>>

\* One pass of the loop body whose remote call resolves: the operation returns.
AttemptSucceeds ==
    /\ rpc = "loop"
    /\ LoopCondition(op, i, retries)
    /\ calls' = calls + 1
    /\ rpc' = "returned"
    /\ UNCHANGED <<op, retries, i, lastError, raised, waits, thrown>>
    /\ UNCHANGED <<symbolVars, orderVars, settleVars, statusVars, moreVars>>

\* One pass of the loop body whose remote call rejects with a fresh error object.
AttemptFails ==
    /\ rpc = "loop"
    /\ LoopCondition(op, i, retries)
    /\ calls' = calls + 1
    /\ raised' = Append(raised, calls + 1)
    /\ lastError' = calls + 1
    /\ IF WaitCondition(op, i, retries)
          THEN /\ rpc' = "wait"
               /\ waits' = Append(waits, BackoffDelay(op, i))
               /\ i' = i
          ELSE /\ rpc' = "loop"
               /\ waits' = waits
               /\ i' = i + 1
    /\ UNCHANGED <<op, retries, thrown>>
    /\ UNCHANGED <<symbolVars, orderVars, settleVars, statusVars, moreVars>>

\* The backoff timer fires and the loop goes to its next pass.
BackoffElapses ==
    /\ rpc = "wait"
    /\ rpc' = "loop"
    /\ i' = i + 1
    /\ UNCHANGED <<op, retries, lastError, calls, raised, waits, thrown>>
    /\ UNCHANGED <<symbolVars, orderVars, settleVars, statusVars, moreVars>>

\* The loop condition is false: the statement after the loop throws.
LoopExhausted ==
    /\ rpc = "loop"
    /\ ~LoopCondition(op, i, retries)
    /\ rpc' = "thrown"
    /\ thrown' = ThrownAfterLoop(op, lastError)
    /\ UNCHANGED <<op, retries, i, lastError, calls, raised, waits>>
    /\ UNCHANGED <<symbolVars, orderVars, settleVars, statusVars, moreVars>>

NextRetry ==
    \/ AttemptSucceeds
    \/ AttemptFails
    \/ BackoffElapses
    \/ LoopExhausted

SpecRetry == InitRetry /\ [][NextRetry]_vars

SeqToSet(s) == { s[k] : k \in 1..Len(s) }

\* C1: an operation whose remote call failed on every attempt has invoked it
\* exactly retries + 1 times when it throws.
C1_InvokedRetriesPlusOne ==
    rpc = "thrown" => calls = retries + 1

\* C2: the error thrown on exhaustion is one of the error objects the remote
\* call raised, never a newly constructed one.
C2_ThrownIsRaisedError ==
    rpc = "thrown" => thrown \in SeqToSet(raised)

\* The delay the backoff rule gives for failed attempt k (from 0): D * (k + 1)
\* with D = 300 or 1000, or 1000 * 2^k capped at 5000.
RuleDelay(o, k) ==
    IF o.backoff = Exponential
       THEN (IF 1000 * Pow2(k) > 5000 THEN 5000 ELSE 1000 * Pow2(k))
       ELSE (IF o.backoff = Linear300 THEN 300 ELSE 1000) * (k + 1)

\* C25: the wait after failed attempt k (from 0) is D * (k + 1) for the linear
\* operations and min(1000 * 2^k, 5000) for the exponential ones; the waits
\* never decrease, an exponential wait never exceeds 5000, and the final
\* failed attempt is followed by no wait.
C25_BackoffDelays ==
    /\ \A k \in 1..Len(waits) : waits[k] = RuleDelay(op, k - 1)
    /\ \A k \in 1..(Len(waits) - 1) : waits[k] <= waits[k + 1]
    /\ op.backoff = Exponential => \A k \in 1..Len(waits) : waits[k] <= 5000
    /\ Len(waits) <= Len(raised)
    /\ rpc = "thrown" => Len(waits) = Max(Len(raised) - 1, 0)

\* An exponential operation reached its cap and failed on its last attempt.
C25_Witness ==
    /\ op.backoff = Exponential
    /\ rpc = "thrown"
    /\ Len(raised) = 5
    /\ waits = <<1000, 2000, 4000, 5000>>

MaxChunks == 5

SWAP == <<"S", "W", "A", "P">>

\* The pieces input strings are concatenated from: two one-letter currency
\* codes, the literal SWAP and the four separator characters.
Chunks == { <<"B">>, <<"U">>, SWAP, <<"_">>, <<"-">>, <<"/">>, <<":">> }

\* The strings concatenated from at most n chunks.
RECURSIVE Strings(_)
Strings(n) ==
    IF n = 0 THEN {<<>>}
    ELSE LET shorter == Strings(n - 1)
         IN  shorter \cup { str \o c : str \in shorter, c \in Chunks }

SymbolInputs == Strings(MaxChunks)

\* String.prototype.includes
Includes(s, sub) ==
    \E k \in 0..(Len(s) - Len(sub)) : SubSeq(s, k + 1, k + Len(sub)) = sub

\* String.prototype.split on a one-character separator
RECURSIVE Split(_, _)
Split(s, c) ==
    IF \A k \in 1..Len(s) : s[k] # c
       THEN <<s>>
       ELSE LET k == CHOOSE k \in 1..Len(s) :
                        s[k] = c /\ \A j \in 1..(k - 1) : s[j] # c
            IN  <<SubSeq(s, 1, k - 1)>> \o Split(SubSeq(s, k + 1, Len(s)), c)

\* gateToOkxSymbol converting on parts.length >= 2 instead of parts.length === 2.
gateToOkxSymbol_AtLeastTwo(sym) ==
    IF sym = <<>> THEN <<>>
    ELSE IF Includes(sym, <<"-">>) /\ Includes(sym, SWAP) THEN sym
    ELSE IF Includes(sym, <<"_">>) /\ Len(Split(sym, "_")) >= 2
         THEN LET parts == Split(sym, "_")
              IN  parts[1] \o <<"-">> \o parts[2] \o <<"-">> \o SWAP
    ELSE sym

\* gateToOkxSymbol with the dash before SWAP left out of the template string.
gateToOkxSymbol_NoDash(sym) ==
    IF sym = <<>> THEN <<>>
    ELSE IF Includes(sym, <<"-">>) /\ Includes(sym, SWAP) THEN sym
    ELSE IF Includes(sym, <<"_">>) /\ Len(Split(sym, "_")) = 2
         THEN LET parts == Split(sym, "_")
              IN  parts[1] \o <<"-">> \o parts[2] \o SWAP
    ELSE sym

gateToOkxSymbol(sym) ==
    IF sym = <<>> THEN <<>>
    ELSE IF Includes(sym, <<"-">>) /\ Includes(sym, SWAP) THEN sym
    ELSE IF Includes(sym, <<"_">>) /\ Len(Split(sym, "_")) = 2
         THEN LET parts == Split(sym, "_")
              IN  parts[1] \o <<"-">> \o parts[2] \o <<"-">> \o SWAP
    ELSE sym

\* String.prototype.replace with a string pattern: the first occurrence only.
ReplaceFirst(s, c, d) ==
    IF \A k \in 1..Len(s) : s[k] # c THEN s
    ELSE LET k == CHOOSE k \in 1..Len(s) : s[k] = c /\ \A j \in 1..(k - 1) : s[j] # c
         IN  SubSeq(s, 1, k - 1) \o <<d>> \o SubSeq(s, k + 1, Len(s))

\* okxToGateSymbol with the SWAP notation converted by symbol.replace("-", "_").
okxToGateSymbol_ReplaceFirst(sym) ==
    IF sym = <<>> THEN <<>>
    ELSE IF Includes(sym, <<"_">>) /\ ~Includes(sym, <<"-">>) THEN sym
    ELSE IF Includes(sym, <<"-">>) /\ Includes(sym, SWAP)
         THEN ReplaceFirst(sym, "-", "_")
    ELSE IF Includes(sym, <<"/">>) /\ Includes(sym, <<":">>)
            /\ Len(Split(sym, ":")) = 2
            /\ Len(Split(Split(sym, ":")[1], "/")) = 2
         THEN LET pairParts == Split(Split(sym, ":")[1], "/")
              IN  pairParts[1] \o <<"_">> \o pairParts[2]
    ELSE sym

okxToGateSymbol(sym) ==
    IF sym = <<>> THEN <<>>
    ELSE IF Includes(sym, <<"_">>) /\ ~Includes(sym, <<"-">>) THEN sym
    ELSE IF Includes(sym, <<"-">>) /\ Includes(sym, SWAP)
            /\ Len(Split(sym, "-")) >= 2
         THEN LET parts == Split(sym, "-")
              IN  parts[1] \o <<"_">> \o parts[2]
    ELSE IF Includes(sym, <<"/">>) /\ Includes(sym, <<":">>)
            /\ Len(Split(sym, ":")) = 2
            /\ Len(Split(Split(sym, ":")[1], "/")) = 2
         THEN LET pairParts == Split(Split(sym, ":")[1], "/")
              IN  pairParts[1] \o <<"_">> \o pairParts[2]
    ELSE sym

InitSymbol ==
    /\ RetryIdle
    /\ OrderIdle
    /\ SettleIdle
    /\ StatusIdle
    /\ MoreIdle
    /\ symbol \in SymbolInputs
    /\ symCalls = <<>>

\* The argument of the next call: the input, then the previous result.
NextArg == IF symCalls = <<>> THEN symbol ELSE symCalls[Len(symCalls)].result

CallGateToOkx ==
    /\ Len(symCalls) < 2
    /\ symCalls' = Append(symCalls, [fn |-> "gateToOkxSymbol", arg |-> NextArg,
                                     result |-> gateToOkxSymbol(NextArg)])
    /\ UNCHANGED <<symbol, retryVars, orderVars, settleVars, statusVars, moreVars>>

CallOkxToGate ==
    /\ Len(symCalls) < 2
    /\ symCalls' = Append(symCalls, [fn |-> "okxToGateSymbol", arg |-> NextArg,
                                     result |-> okxToGateSymbol(NextArg)])
    /\ UNCHANGED <<symbol, retryVars, orderVars, settleVars, statusVars, moreVars>>

NextSymbol == CallGateToOkx \/ CallOkxToGate

SpecSymbol == InitSymbol /\ [][NextSymbol]_vars

\* A currency code: non-empty, no separator character.
IsCode(s) == s # <<>> /\ \A k \in 1..Len(s) : s[k] \notin {"_", "-", "/", ":"}

\* BASE_QUOTE
IsCanonical(s) ==
    LET parts == Split(s, "_") IN Len(parts) = 2 /\ IsCode(parts[1]) /\ IsCode(parts[2])

\* BASE-QUOTE-SWAP
IsNativeSwap(s) ==
    LET parts == Split(s, "-")
    IN  Len(parts) = 3 /\ IsCode(parts[1]) /\ IsCode(parts[2]) /\ parts[3] = SWAP

Fns(a, b) == Len(symCalls) = 2 /\ symCalls[1].fn = a /\ symCalls[2].fn = b

\* C9: translating a canonical BASE_QUOTE symbol (BASE and QUOTE currency codes,
\* which hold no separator character) to the OKX notation and back returns the
\* symbol: okxToGateSymbol(gateToOkxSymbol(S)) = S.
C9_RoundTrip ==
    (Fns("gateToOkxSymbol", "okxToGateSymbol") /\ IsCanonical(symbol))
        => symCalls[2].result = symbol

C9_Witness ==
    /\ Fns("gateToOkxSymbol", "okxToGateSymbol")
    /\ symbol = <<"B", "_", "U">>
    /\ symCalls[1].result = <<"B", "-", "U", "-", "S", "W", "A", "P">>
    /\ symCalls[2].result = symbol

\* C10: each translator is idempotent on every string; an already-native string
\* passes gateToOkxSymbol unchanged and an already-canonical string passes
\* okxToGateSymbol unchanged.
C10_Idempotent ==
    /\ (Len(symCalls) = 2 /\ symCalls[1].fn = symCalls[2].fn)
           => symCalls[2].result = symCalls[1].result
    /\ (Len(symCalls) >= 1 /\ symCalls[1].fn = "gateToOkxSymbol" /\ IsNativeSwap(symbol))
           => symCalls[1].result = symbol
    /\ (Len(symCalls) >= 1 /\ symCalls[1].fn = "okxToGateSymbol" /\ IsCanonical(symbol))
           => symCalls[1].result = symbol

C10_Witness ==
    /\ Fns("okxToGateSymbol", "okxToGateSymbol")
    /\ symbol = <<"B", "/", "U", ":", "U">>
    /\ symCalls[1].result = <<"B", "_", "U">>
    /\ symCalls[2].result = <<"B", "_", "U">>

\* BASE/QUOTE:QUOTE
IsCcxtSwap(s) ==
    LET halves == Split(s, ":")
        pair == Split(halves[1], "/")
    IN  /\ Len(halves) = 2
        /\ Len(pair) = 2 /\ IsCode(pair[1]) /\ IsCode(pair[2])
        /\ halves[2] = pair[2]

\* A string in none of the three notations.
Unrecognized(s) == ~IsCanonical(s) /\ ~IsNativeSwap(s) /\ ~IsCcxtSwap(s)

\* A string no separator test of the translators matches: no "_" splitting it
\* in exactly two parts, not both "-" and SWAP, not both "/" and ":".
NoSeparatorMatch(s) ==
    /\ ~(Includes(s, <<"_">>) /\ Len(Split(s, "_")) = 2)
    /\ ~(Includes(s, <<"-">>) /\ Includes(s, SWAP))
    /\ ~(Includes(s, <<"/">>) /\ Includes(s, <<":">>))

\* C11 as stated: a string in none of the notations BASE_QUOTE, BASE-QUOTE-SWAP,
\* BASE/QUOTE:QUOTE is returned unchanged by either translator.
C11_UnrecognizedUnchanged ==
    (Len(symCalls) >= 1 /\ Unrecognized(symbol)) => symCalls[1].result = symbol

\* C11: a string with no separator match (no "_" splitting it in exactly two
\* parts, not both "-" and SWAP, not both "/" and ":") is returned unchanged by
\* gateToOkxSymbol and by okxToGateSymbol; both translators return a string for
\* every input.
C11_NoSeparatorMatchUnchanged ==
    \A k \in 1..Len(symCalls) :
        NoSeparatorMatch(symCalls[k].arg) => symCalls[k].result = symCalls[k].arg

\* The three-part B_U_B goes through both translators and comes back as it was.
C11_Witness ==
    /\ Fns("okxToGateSymbol", "gateToOkxSymbol")
    /\ symbol = <<"B", "_", "U", "_", "B">>
    /\ NoSeparatorMatch(symbol)
    /\ symCalls[1].result = symbol
    /\ symCalls[2].result = symbol

(***************************************************************************)
(* placeOrder: GateClient.placeOrder and the Gate-compatible               *)
(* OkxClient.placeOrder -> convertGateToOkxOrderParams -> placeOrderOkx    *)
(*                                                                         *)
(* Numbers are fixed-point integers: sizes in hundredths of a contract,    *)
(* request and mark prices in thousandths, computed prices in millionths,  *)
(* deviations in thousandths.                                              *)
(***************************************************************************)

\* Units per contract of a size value.
SizeScale == 100
\* Units per currency unit of a request price or mark price.
PriceScale == 1000
\* Units per currency unit of a computed price.
MicroScale == 1000000
\* Units of a deviation ratio; MicroScale = PriceScale * DeviationScale.
DeviationScale == 1000

\* A field that is undefined.
Absent == -1

\* const API_MAX_SIZE = 10000000
API_MAX_SIZE == 10000000
\* const maxDeviation = 0.015 (gateClient.ts), in thousandths
GateMaxDeviation == 15
\* const maxDeviation = 0.05 (exchangeConfig.ts), in thousandths
OkxMaxDeviation == 50
\* orderSizeMin: contractInfo.limits?.amount?.min || 1
OkxDefaultSizeMin == 1
\* orderSizeMax: contractInfo.limits?.amount?.max || 1000000
OkxDefaultSizeMax == 1000000

Pow10(n) == IF n <= 0 THEN 1 ELSE IF n = 1 THEN 10 ELSE IF n = 2 THEN 100
            ELSE IF n = 3 THEN 1000 ELSE IF n = 4 THEN 10000
            ELSE IF n = 5 THEN 100000 ELSE 1000000

\* Math.round(x * multiplier) / multiplier with multiplier = 10^precision, on a
\* value held in 1/scale units: the nearest multiple of the step, ties upward.
RoundToPrecision(x, precision, scale) ==
    LET step == IF Pow10(precision) >= scale THEN 1 ELSE scale \div Pow10(precision)
        q == x \div step
        r == x % step
    IN  IF 2 * r >= step THEN (q + 1) * step ELSE q * step

BTC_USDT == <<"B", "_", "U">>
BTC_USDT_SWAP == <<"B", "-", "U", "-", "S", "W", "A", "P">>
\* A contract name neither exchange lists.
XYZ_USDT == <<"X", "_", "U">>

\* The names of the contracts listFuturesContracts answers with (Gate.io), and
\* the markets fetchMarkets answers with (OKX, through ccxt).
GateContractList == {BTC_USDT}
OkxMarkets == { [symbol |-> <<"B", "/", "U", ":", "U">>, instId |-> BTC_USDT_SWAP] }

\* getContractInfo of exchangeConfig.ts: the contract is looked up by its ccxt
\* symbol, then (for a name in OKX form) by the name itself, then by instId.
OkxFindsContract(contract) ==
    LET isSwap == Includes(contract, <<"-">>) /\ Includes(contract, SWAP)
        parts == Split(contract, "-")
        okxSymbol == IF isSwap THEN contract ELSE gateToOkxSymbol(contract)
        contractForInfo ==
            IF isSwap
               THEN IF Len(parts) >= 2
                       THEN parts[1] \o <<"/">> \o parts[2] \o <<":">> \o parts[2]
                       ELSE contract
               ELSE okxSymbol
    IN  \/ \E c \in OkxMarkets : c.symbol = contractForInfo
        \/ isSwap /\ \E c \in OkxMarkets : c.symbol = okxSymbol
        \/ \E c \in OkxMarkets : c.instId = okxSymbol

\* The lookup that finds every name.
FindsContract_Always(v, contract) == TRUE

\* Whether the `find` of getContractInfo yields a contract.
FindsContract(v, contract) ==
    IF v = "gate" THEN contract \in GateContractList ELSE OkxFindsContract(contract)

RequestSizes == {-500000, -257, 0, 10, 257, 500000, 1200000000}
RequestPrices == {0, 90000, 101000, 110000}
RequestStops == { [stopLoss |-> 0, takeProfit |-> 0],
                  [stopLoss |-> 95000, takeProfit |-> 0],
                  [stopLoss |-> 0, takeProfit |-> 120000] }
RequestTifs == {"", "poc"}

\* The `params` argument of placeOrder (price 0: no price; tif "": no tif).
OrderRequests ==
    { [contract |-> c, size |-> sz, price |-> pr, tif |-> t, reduceOnly |-> ro,
       stopLoss |-> st.stopLoss, takeProfit |-> st.takeProfit] :
        c \in {BTC_USDT, BTC_USDT_SWAP, XYZ_USDT}, sz \in RequestSizes, pr \in RequestPrices,
        t \in RequestTifs, ro \in BOOLEAN, st \in RequestStops }

\* The contract objects listFuturesContracts can hold for the requested name
\* (0: the field is missing or zero).
GateContracts ==
    { [orderSizeMin |-> mn, orderSizeMax |-> mx, minAmount |-> Absent,
       precision |-> pp, orderSizePrecision |-> sp] :
        mn \in {0, 100}, mx \in {0, 100000, 2000000000}, pp \in {0, 2}, sp \in {0, 1} }

\* The `limits.amount` of the market ccxt holds for the symbol.
OkxMarketLimits ==
    { [min |-> mn, max |-> mx] : mn \in {0, 500}, mx \in {0, 100000} }

\* The BaseContract OkxClient.getContractInfo builds from a market: it has
\* orderSizeMin and orderSizeMax and no minAmount, precision or orderSizePrecision.
OkxContract(limits) ==
    [orderSizeMin |-> IF limits.min # 0 THEN limits.min ELSE OkxDefaultSizeMin * SizeScale,
     orderSizeMax |-> IF limits.max # 0 THEN limits.max ELSE OkxDefaultSizeMax * SizeScale,
     minAmount |-> Absent, precision |-> 0, orderSizePrecision |-> 0]

OkxContracts == { OkxContract(l) : l \in OkxMarketLimits }

\* The ticker getFuturesTicker resolves with. GateClient returns the exchange's
\* object (markPrice may be missing); OkxClient always builds a markPrice string.
GateTickers ==
    { [markPrice |-> m, last |-> l] : m \in {Absent, 0, 100300}, l \in {Absent, 100000} }
OkxTickers ==
    { [markPrice |-> m, last |-> l] : m \in {0, 100300}, l \in {0, 100000} }

\* The `label` of an error a read (contract list, ticker) rejects with.
ReadLabels == {"", "SERVER_ERROR"}
\* The `label` of an error an order submission rejects with.
SubmitLabels == {"INSUFFICIENT_MARGIN", "INVALID_PARAM_VALUE", ""}

\* An error object: the call that raised it, its `label`, and which it is.
OrderError(from, label, n) == [from |-> from, label |-> label, n |-> n, message |-> ""]

\* The error getContractInfo makes when the list holds no such contract.
MissingContract ==
    [from |-> "getContractInfo", label |-> "", n |-> 0, message |-> "contract not found"]

\* No error caught or thrown yet.
NoOrderError == OrderError("", "", 0)

\* `contractInfo` before getContractInfo has resolved.
NoContract ==
    [orderSizeMin |-> 0, orderSizeMax |-> 0, minAmount |-> Absent,
     precision |-> 0, orderSizePrecision |-> 0]

\* gateClient.ts: the size after the minimum and maximum checks.
GateClampSize(size, c) ==
    LET absSize == Abs(size)
        afterMin == IF c.orderSizeMin # 0 /\ absSize < c.orderSizeMin
                       THEN (IF size > 0 THEN c.orderSizeMin ELSE -c.orderSizeMin)
                       ELSE size
        maxSize == IF c.orderSizeMax # 0
                      THEN Min(c.orderSizeMax, API_MAX_SIZE * SizeScale)
                      ELSE API_MAX_SIZE * SizeScale
    IN  IF absSize > maxSize THEN (IF size > 0 THEN maxSize ELSE -maxSize)
        ELSE afterMin

\* exchangeConfig.ts: the size after the minimum check on contractInfo.minAmount.
OkxClampSize(size, c) ==
    IF c.minAmount # Absent /\ c.minAmount # 0 /\ Abs(size) < c.minAmount
       THEN (IF size > 0 THEN c.minAmount ELSE -c.minAmount)
       ELSE size

\* Number.parseFloat(ticker.markPrice || ticker.last || "0")
GateMarkPrice(t) ==
    IF t.markPrice # Absent THEN t.markPrice
    ELSE IF t.last # Absent THEN t.last ELSE 0

\* parseFloat(ticker.markPrice || "0")
OkxMarkPrice(t) == IF t.markPrice # Absent THEN t.markPrice ELSE 0

\* Math.abs(params.price - markPrice) / markPrice > maxDeviation, when markPrice > 0
Deviates(price, mark, maxDev) ==
    mark > 0 /\ Abs(price - mark) * DeviationScale > maxDev * mark

\* The deviation check: a price further than maxDev from the mark price becomes
\* mark * (1 + clampDev) when size > 0 and mark * (1 - clampDev) otherwise.
DeviationClamp(price, size, mark, maxDev, clampDev) ==
    IF Deviates(price, mark, maxDev)
       THEN (IF size > 0 THEN mark * (DeviationScale + clampDev)
                         ELSE mark * (DeviationScale - clampDev))
       ELSE price * (MicroScale \div PriceScale)

GateClampPrice(price, size, mark) ==
    DeviationClamp(price, size, mark, GateMaxDeviation, GateMaxDeviation)

\* markPrice * (1 + maxDeviation / 2) : markPrice * (1 - maxDeviation / 2)
OkxClampPrice(price, size, mark) ==
    DeviationClamp(price, size, mark, OkxMaxDeviation, OkxMaxDeviation \div 2)

\* adjustedPriceValue.toFixed(ticker.pricePrecision || 8): no ticker built by
\* getFuturesTicker has a pricePrecision.
OkxTickerPrecision == 8

\* parseFloat(adjustedPriceValue.toFixed(...)), applied to a clamped price only.
OkxRoundPrice(price, clamped) ==
    IF clamped THEN RoundToPrecision(price, OkxTickerPrecision, MicroScale) ELSE price

\* if (adjustedPrice && contractInfo.precision) ...
GateRoundPrice(price, c) ==
    IF price # 0 /\ c.precision # 0
       THEN RoundToPrecision(price, c.precision, MicroScale) ELSE price

\* if (contractInfo.orderSizePrecision) ...
GateRoundSize(size, c) ==
    IF c.orderSizePrecision # 0
       THEN RoundToPrecision(size, c.orderSizePrecision, SizeScale) ELSE size

\* convertGateToOkxOrderParams
convertGateToOkxOrderParams(gateParams) ==
    [contract |-> gateParams.contract,
     size |-> Abs(gateParams.size),
     price |-> gateParams.price,
     type |-> IF gateParams.price > 0 THEN "limit" ELSE "market",
     side |-> IF gateParams.size > 0 THEN "buy" ELSE "sell",
     tif |-> gateParams.tif,
     reduceOnly |-> gateParams.reduceOnly,
     stopLossPrice |-> gateParams.stopLoss,
     takeProfitPrice |-> gateParams.takeProfit]

\* The order built as a limit order whatever the price.
GateOrder_AlwaysLimit(p, size, price) ==
    [contract |-> p.contract, size |-> size, side |-> "", price |-> price, type |-> "",
     tif |-> IF p.tif # "" THEN p.tif ELSE "gtc", reduce_only |-> p.reduceOnly,
     stopLoss |-> p.stopLoss, takeProfit |-> p.takeProfit]

\* The FuturesOrder GateClient.placeOrder builds (type "": not set).
GateOrder(p, size, price) ==
    [contract |-> p.contract,
     size |-> size,
     side |-> "",
     price |-> IF price > 0 THEN price ELSE 0,
     type |-> IF price > 0 THEN "" ELSE "market",
     tif |-> IF price > 0 THEN (IF p.tif # "" THEN p.tif ELSE "gtc") ELSE "ioc",
     reduce_only |-> p.reduceOnly,
     stopLoss |-> p.stopLoss,
     takeProfit |-> p.takeProfit]

\* The market order of the catch block.
GateMarketOrder(p, size) ==
    [contract |-> p.contract, size |-> size, side |-> "", price |-> 0,
     type |-> "market", tif |-> "ioc", reduce_only |-> TRUE,
     stopLoss |-> 0, takeProfit |-> 0]

\* The arguments placeOrderOkx gives client.createOrder (price 0: undefined).
OkxOrder(p, price) ==
    [contract |-> gateToOkxSymbol(p.contract),
     size |-> Abs(p.size),
     side |-> IF p.side = "buy" THEN "buy" ELSE "sell",
     price |-> IF p.type = "limit" THEN price ELSE 0,
     type |-> IF p.type = "limit" THEN "limit" ELSE "market",
     tif |-> "",
     reduce_only |-> p.reduceOnly,
     stopLoss |-> p.stopLossPrice,
     takeProfit |-> p.takeProfitPrice]

\* The fallback taken on the error label alone.
FallbackApplies_AnyRequest(error, p) ==
    error.label = "INSUFFICIENT_MARGIN"

\* The condition of the catch block's fallback.
FallbackApplies(error, p) ==
    error.label = "INSUFFICIENT_MARGIN" /\ p.reduceOnly

InitOrder ==
    /\ RetryIdle
    /\ SymbolIdle
    /\ SettleIdle
    /\ StatusIdle
    /\ MoreIdle
    /\ venue \in {"gate", "okx"}
    /\ params \in OrderRequests
    /\ opc = "contractInfo"
    /\ contractInfo = NoContract
    /\ markPrice = Absent
    /\ clampedPrice = 0
    /\ adjustedPrice = 0
    /\ adjustedSize = IF venue = "gate" THEN params.size ELSE 0
    /\ submitted = <<>>
    /\ caught = NoOrderError
    /\ othrown = NoOrderError
    /\ oresult = 0
    /\ ocalls = <<>>

\* The outer catch of GateClient.placeOrder.
GateCatch(error) ==
    /\ caught' = error
    /\ IF FallbackApplies(error, params)
          THEN opc' = "fallback" /\ othrown' = othrown
          ELSE opc' = "thrown" /\ othrown' = error

\* The outer catch of placeOrderOkx: log and rethrow.
OkxCatch(error) ==
    /\ caught' = error
    /\ opc' = "thrown"
    /\ othrown' = error

\* The guard that never reads the ticker.
ReadsTicker_Never(v, price) == FALSE

\* if (params.price && params.price > 0) / if (params.price && params.price !== 0)
ReadsTicker(v, price) ==
    IF v = "gate" THEN price > 0 ELSE price # 0

\* getContractInfo rejects (the contract list fails to load or lacks the name).
ContractInfoFails ==
    /\ opc = "contractInfo"
    /\ \E error \in { OrderError("getContractInfo", l, 0) : l \in ReadLabels }
                     \cup (IF FindsContract(venue, params.contract)
                              THEN {} ELSE {MissingContract}) :
          IF venue = "gate" THEN GateCatch(error) ELSE OkxCatch(error)
    /\ ocalls' = Append(ocalls, "getContractInfo")
    /\ UNCHANGED <<venue, params, contractInfo, markPrice, clampedPrice,
                   adjustedPrice, adjustedSize, submitted, oresult>>
    /\ UNCHANGED <<retryVars, symbolVars, settleVars, statusVars, moreVars>>

\* getContractInfo resolves: the size checks run; without a price the rounding
\* runs too and the order is ready.
ContractInfoLoads ==
    /\ opc = "contractInfo"
    /\ FindsContract(venue, params.contract)
    /\ \E c \in (IF venue = "gate" THEN GateContracts ELSE OkxContracts) :
          LET size == IF venue = "gate"
                         THEN GateClampSize(params.size, c)
                         ELSE OkxClampSize(convertGateToOkxOrderParams(params).size, c)
              price == params.price * (MicroScale \div PriceScale)
          IN  /\ contractInfo' = c
              /\ clampedPrice' = price
              /\ IF ReadsTicker(venue, params.price)
                    THEN /\ opc' = "ticker"
                         /\ adjustedSize' = size
                         /\ adjustedPrice' = price
                    ELSE /\ opc' = "submit"
                         /\ adjustedSize' = IF venue = "gate" THEN GateRoundSize(size, c)
                                                              ELSE size
                         /\ adjustedPrice' = IF venue = "gate" THEN GateRoundPrice(price, c)
                                                               ELSE price
    /\ ocalls' = Append(ocalls, "getContractInfo")
    /\ UNCHANGED <<venue, params, markPrice, submitted, caught, othrown, oresult>>
    /\ UNCHANGED <<retryVars, symbolVars, settleVars, statusVars, moreVars>>

\* getFuturesTicker rejects: GateClient.placeOrder lets the error reach its
\* catch, placeOrderOkx logs it and keeps the requested price.
TickerFails ==
    /\ opc = "ticker"
    /\ \E l \in ReadLabels :
          LET error == OrderError("getFuturesTicker", l, 0)
          IN  IF venue = "gate"
                 THEN GateCatch(error)
                 ELSE opc' = "submit" /\ UNCHANGED <<caught, othrown>>
    /\ ocalls' = Append(ocalls, "getFuturesTicker")
    /\ UNCHANGED <<venue, params, contractInfo, markPrice, clampedPrice,
                   adjustedPrice, adjustedSize, submitted, oresult>>
    /\ UNCHANGED <<retryVars, symbolVars, settleVars, statusVars, moreVars>>

\* getFuturesTicker resolves: the deviation check and the rounding run.
TickerLoads ==
    /\ opc = "ticker"
    /\ \E t \in (IF venue = "gate" THEN GateTickers ELSE OkxTickers) :
          IF venue = "gate"
             THEN LET mark == GateMarkPrice(t)
                      price == GateClampPrice(params.price, params.size, mark)
                  IN  /\ markPrice' = mark
                      /\ clampedPrice' = price
                      /\ adjustedPrice' = GateRoundPrice(price, contractInfo)
                      /\ adjustedSize' = GateRoundSize(adjustedSize, contractInfo)
             ELSE LET p == convertGateToOkxOrderParams(params)
                      mark == OkxMarkPrice(t)
                      price == OkxClampPrice(p.price, p.size, mark)
                  IN  /\ markPrice' = mark
                      /\ clampedPrice' = price
                      /\ adjustedPrice' =
                            OkxRoundPrice(price, Deviates(p.price, mark, OkxMaxDeviation))
                      /\ adjustedSize' = adjustedSize
    /\ opc' = "submit"
    /\ ocalls' = Append(ocalls, "getFuturesTicker")
    /\ UNCHANGED <<venue, params, contractInfo, submitted, caught, othrown, oresult>>
    /\ UNCHANGED <<retryVars, symbolVars, settleVars, statusVars, moreVars>>

\* The order handed to createFuturesOrder / createOrder.
BuiltOrder ==
    IF venue = "gate" THEN GateOrder(params, adjustedSize, adjustedPrice)
    ELSE OkxOrder(convertGateToOkxOrderParams(params), adjustedPrice)

\* The exchange accepts the order: its result is returned.
SubmitSucceeds ==
    /\ opc = "submit"
    /\ submitted' = Append(submitted, BuiltOrder)
    /\ oresult' = Len(submitted) + 1
    /\ opc' = "returned"
    /\ ocalls' = Append(ocalls, "createOrder")
    /\ UNCHANGED <<venue, params, contractInfo, markPrice, clampedPrice,
                   adjustedPrice, adjustedSize, caught, othrown>>
    /\ UNCHANGED <<retryVars, symbolVars, settleVars, statusVars, moreVars>>

\* The exchange rejects the order: the catch block runs.
SubmitFails ==
    /\ opc = "submit"
    /\ submitted' = Append(submitted, BuiltOrder)
    /\ \E l \in SubmitLabels :
          LET error == OrderError("createOrder", l, Len(submitted) + 1)
          IN  IF venue = "gate" THEN GateCatch(error) ELSE OkxCatch(error)
    /\ ocalls' = Append(ocalls, "createOrder")
    /\ UNCHANGED <<venue, params, contractInfo, markPrice, clampedPrice,
                   adjustedPrice, adjustedSize, oresult>>
    /\ UNCHANGED <<retryVars, symbolVars, settleVars, statusVars, moreVars>>

\* The fallback market order is accepted: its result is returned.
FallbackSucceeds ==
    /\ opc = "fallback"
    /\ submitted' = Append(submitted, GateMarketOrder(params, adjustedSize))
    /\ oresult' = Len(submitted) + 1
    /\ opc' = "returned"
    /\ ocalls' = Append(ocalls, "createOrder")
    /\ UNCHANGED <<venue, params, contractInfo, markPrice, clampedPrice,
                   adjustedPrice, adjustedSize, caught, othrown>>
    /\ UNCHANGED <<retryVars, symbolVars, settleVars, statusVars, moreVars>>

\* The fallback market order is rejected too: throw marketError.
FallbackFails ==
    /\ opc = "fallback"
    /\ submitted' = Append(submitted, GateMarketOrder(params, adjustedSize))
    /\ \E l \in SubmitLabels :
          othrown' = OrderError("createOrder", l, Len(submitted) + 1)
    /\ opc' = "thrown"
    /\ ocalls' = Append(ocalls, "createOrder")
    /\ UNCHANGED <<venue, params, contractInfo, markPrice, clampedPrice,
                   adjustedPrice, adjustedSize, caught, oresult>>
    /\ UNCHANGED <<retryVars, symbolVars, settleVars, statusVars, moreVars>>

NextOrder ==
    \/ ContractInfoFails
    \/ ContractInfoLoads
    \/ TickerFails
    \/ TickerLoads
    \/ SubmitSucceeds
    \/ SubmitFails
    \/ FallbackSucceeds
    \/ FallbackFails

SpecOrder == InitOrder /\ [][NextOrder]_vars

\* The direction an order carries: the sign of a Gate size, the side of an OKX order.
Direction(o) ==
    IF venue = "gate" THEN (IF o.size > 0 THEN "buy" ELSE "sell") ELSE o.side

\* C3: every order placeOrder submits for a non-zero requested size has, on
\* either venue, the magnitude of |size| clamped into [contract minimum,
\* min(contract maximum, 10,000,000)] (then rounded to the contract's size
\* precision) and the direction of the requested size.
C3_SizeClamped ==
    \A k \in 1..Len(submitted) :
        params.size # 0 =>
            LET c == contractInfo
                maxSize == IF c.orderSizeMax # 0
                              THEN Min(c.orderSizeMax, API_MAX_SIZE * SizeScale)
                              ELSE API_MAX_SIZE * SizeScale
                clamped == Max(c.orderSizeMin, Min(Abs(params.size), maxSize))
                signed == IF params.size > 0 THEN clamped ELSE -clamped
            IN  /\ Abs(submitted[k].size) = Abs(GateRoundSize(signed, c))
                /\ Direction(submitted[k]) = (IF params.size > 0 THEN "buy" ELSE "sell")

\* The configured maximum deviation of the venue called, in thousandths.
VenueMaxDeviation == IF venue = "gate" THEN GateMaxDeviation ELSE OkxMaxDeviation

\* C4: with a limit price, a non-zero size and a mark price > 0 read, the price
\* before precision rounding is mark * (1 + maxDev) for a buy and
\* mark * (1 - maxDev) for a sell when |price - mark| / mark > maxDev, and the
\* requested price otherwise; maxDev is 1.5% on Gate and 5% on OKX.
C4_PriceClamped ==
    (markPrice > 0 /\ params.price > 0 /\ params.size # 0) =>
        clampedPrice =
            IF Abs(params.price - markPrice) * DeviationScale > VenueMaxDeviation * markPrice
               THEN (IF params.size > 0
                        THEN markPrice * (DeviationScale + VenueMaxDeviation)
                        ELSE markPrice * (DeviationScale - VenueMaxDeviation))
               ELSE params.price * (MicroScale \div PriceScale)

\* The first submission of a GateClient.placeOrder call was rejected.
FirstSubmissionFailed == venue = "gate" /\ caught.from = "createOrder"

\* C5: in GateClient.placeOrder a first submission rejected with
\* INSUFFICIENT_MARGIN on a reduce-only request is followed by exactly one
\* market order (price 0, IOC, reduce-only, same contract, the sanitized size of
\* the first order); its result is returned if it is accepted and its error is
\* thrown if it is rejected. No other request or error leads to a second
\* submission, and no call submits more than two orders.
C5_MarginFallback ==
    /\ (FirstSubmissionFailed /\ caught.label = "INSUFFICIENT_MARGIN" /\ params.reduceOnly
        /\ opc \in {"returned", "thrown"})
           => /\ Len(submitted) = 2
              /\ submitted[2] = [contract |-> params.contract, size |-> submitted[1].size,
                                 side |-> "", price |-> 0, type |-> "market", tif |-> "ioc",
                                 reduce_only |-> TRUE, stopLoss |-> 0, takeProfit |-> 0]
              /\ Abs(submitted[2].size) = Abs(adjustedSize)
              /\ (opc = "returned" => oresult = 2)
              /\ (opc = "thrown" => othrown.from = "createOrder" /\ othrown.n = 2)
    /\ (venue = "gate" /\ (Len(submitted) >= 2 \/ opc = "fallback"))
           => /\ FirstSubmissionFailed
              /\ caught.label = "INSUFFICIENT_MARGIN"
              /\ params.reduceOnly
    /\ (FirstSubmissionFailed /\ opc = "thrown" /\ Len(submitted) = 1)
           => othrown = caught
    /\ Len(submitted) <= 2

\* Whether an order is the market order of its venue: price "0", type market
\* and tif ioc on Gate, type market and no price on OKX.
IsMarketOrder(o) ==
    IF venue = "gate" THEN o.price = 0 /\ o.type = "market" /\ o.tif = "ioc"
    ELSE o.type = "market" /\ o.price = 0

\* Whether an order is a limit order carrying the sanitized price.
IsLimitOrder(o) ==
    /\ o.price = adjustedPrice
    /\ o.price > 0
    /\ o.type = (IF venue = "gate" THEN "" ELSE "limit")

Follows(k, name) == \E j \in 1..(k - 1) : ocalls[j] = name

\* C26: in one placeOrder invocation every order submission comes after the
\* contract-metadata read and, when the request carries a limit price, after
\* the mark-price read; the price is sanitized only once the mark-price read
\* has completed, and the reads are made in the order metadata, mark price.
C26_ReadsBeforeSubmission ==
    /\ \A k \in 1..Len(ocalls) :
          /\ ocalls[k] = "createOrder" =>
                /\ Follows(k, "getContractInfo")
                /\ (params.price > 0 => Follows(k, "getFuturesTicker"))
          /\ ocalls[k] = "getFuturesTicker" => Follows(k, "getContractInfo")
          /\ ocalls[k] # "createOrder" => ~Follows(k, "createOrder")
    /\ Len(submitted) = Cardinality({ k \in 1..Len(ocalls) : ocalls[k] = "createOrder" })
    /\ (contractInfo # NoContract /\ params.price > 0
         /\ adjustedPrice # params.price * (MicroScale \div PriceScale))
          => Follows(Len(ocalls) + 1, "getFuturesTicker")
    /\ markPrice # Absent => Follows(Len(ocalls) + 1, "getFuturesTicker")

\* A limit order whose price was moved by the deviation check, submitted after
\* both reads.
C26_Witness ==
    /\ params.price = 110000
    /\ markPrice = 100300
    /\ adjustedPrice # params.price * (MicroScale \div PriceScale)
    /\ ocalls = <<"getContractInfo", "getFuturesTicker", "createOrder">>
    /\ opc = "returned"

\* C27: a limit order submitted by placeOrder never carries a price worse for
\* the trader than the requested one: not higher for a buy (size > 0), not
\* lower for a sell (size < 0), whatever the mark price read.
C27_NeverAgainstTrader ==
    \A k \in 1..Len(submitted) :
        (params.price > 0 /\ submitted[k].price > 0) =>
            LET requested == params.price * (MicroScale \div PriceScale)
            IN  /\ params.size > 0 => submitted[k].price <= requested
                /\ params.size < 0 => submitted[k].price >= requested

\* The price submitted for a request beyond the mark price on the trader's
\* worse side (a buy above it, a sell below it) is never worse than requested.
C27_AggressivePriceNotWorsened ==
    \A k \in 1..Len(submitted) :
        (params.price > 0 /\ submitted[k].price > 0 /\ markPrice > 0) =>
            LET requested == params.price * (MicroScale \div PriceScale)
            IN  /\ (params.size > 0 /\ params.price >= markPrice) =>
                        submitted[k].price <= requested
                /\ (params.size < 0 /\ params.price <= markPrice) =>
                        submitted[k].price >= requested

\* An error without an exchange label: a network failure, not a rejection of
\* the order by the exchange.
IsTransient(error) == error.label = ""

\* C23: placeOrder fails on a transient failure of its remote submit call only
\* after it has invoked that call again at least once, as a read operation does.
C23_SubmitRetried ==
    (opc = "thrown" /\ othrown.from = "createOrder" /\ IsTransient(othrown)) =>
        Len(submitted) >= 2

\* A reduce-only sell below the contract minimum, rejected for margin, then
\* closed by the fallback market order of the sanitized size.
C5_Witness ==
    /\ venue = "gate"
    /\ params.reduceOnly /\ params.size = -257 /\ params.price = 110000
    /\ contractInfo.orderSizePrecision = 1
    /\ caught.label = "INSUFFICIENT_MARGIN"
    /\ opc = "returned" /\ oresult = 2
    /\ Len(submitted) = 2
    /\ submitted[1].price > 0
    /\ submitted[2].size = -260 /\ submitted[2].price = 0 /\ submitted[2].type = "market"

(***************************************************************************)
(* calculateSettlementHistoryFromOrders of the two OkxClient files         *)
(*                                                                         *)
(* A number is an integer (fees, rates and P&L in ten-thousandths); a      *)
(* numeric string is the sequence of the characters of that integer.       *)
(***************************************************************************)

\* Largest number of trades the exchange returns.
MaxTrades == 3
\* Largest `limit` argument explored.
MaxLimit == 3

\* `trade.id || trade.tradeId` of an object with neither field.
Undefined == "undefined"

DigitChars == <<"0", "1", "2", "3", "4", "5", "6", "7", "8", "9">>

RECURSIVE Digits(_)
Digits(n) ==
    IF n < 10 THEN <<DigitChars[n + 1]>>
    ELSE Digits(n \div 10) \o <<DigitChars[(n % 10) + 1]>>

\* Number.prototype.toString
NumberToString(n) == IF n < 0 THEN <<"-">> \o Digits(-n) ELSE Digits(n)

RECURSIVE DigitsValue(_)
DigitsValue(str) ==
    IF str = <<>> THEN 0
    ELSE 10 * DigitsValue(SubSeq(str, 1, Len(str) - 1))
         + ((CHOOSE d \in 1..10 : DigitChars[d] = str[Len(str)]) - 1)

\* parseInt / parseFloat of a numeric string
ParseNumber(str) ==
    IF str # <<>> /\ Head(str) = "-" THEN -DigitsValue(Tail(str)) ELSE DigitsValue(str)

\* String.prototype.toLowerCase on the status strings explored.
ToLowerCase(str) ==
    CASE str = "CLOSED" -> "closed"
      [] str = "Canceled" -> "canceled"
      [] str = "Expired" -> "expired"
      [] OTHER -> str

\* mapOrderStatus (switch on status?.toLowerCase()): exchangeConfig.ts maps
\* closed and filled to "finished"; okxClient.ts maps closed to "filled" and has
\* no case for "filled". An undefined status takes the default case.
mapOrderStatus(client, rawStatus) ==
    LET lower == IF rawStatus = Undefined THEN Undefined ELSE ToLowerCase(rawStatus)
    IN  IF client = "exchangeConfig.ts"
           THEN CASE lower = "open" -> "open"
                  [] lower \in {"closed", "filled"} -> "finished"
                  [] lower \in {"canceled", "cancelled"} -> "finished"
                  [] lower = "expired" -> "expired"
                  [] lower = "rejected" -> "rejected"
                  [] OTHER -> "open"
           ELSE CASE lower = "open" -> "open"
                  [] lower = "closed" -> "filled"
                  [] lower \in {"canceled", "cancelled"} -> "cancelled"
                  [] lower = "expired" -> "expired"
                  [] lower = "rejected" -> "rejected"
                  [] OTHER -> "open"

\* The closed orders fetchClosedOrders resolves with.
ExchangeOrders ==
    { [id |-> "o1", status |-> "closed", timestamp |-> 3, fee |-> 4],
      [id |-> "o2", status |-> "canceled", timestamp |-> 1, fee |-> 0] }

\* The trades fetchMyTrades resolves with: a fee cost is positive for a charge,
\* negative for a rebate.
ExchangeTrades ==
    { [id |-> "t1", timestamp |-> 1, fee |-> 5],
      [id |-> "t1", timestamp |-> 2, fee |-> 5],
      [id |-> "t2", timestamp |-> 2, fee |-> -2],
      [id |-> "t3", timestamp |-> 4, fee |-> 0] }

\* The funding records fetchFundingRateHistory resolves with.
ExchangeFundings ==
    { [timestamp |-> 2, fundingRate |-> -1, notional |-> 1000],
      [timestamp |-> 5, fundingRate |-> 3, notional |-> 500],
      [timestamp |-> 3, fundingRate |-> 3, notional |-> Absent] }

SeqsUpTo(S, n) == UNION { [1..k -> S] : k \in 0..n }

\* getOrderHistory: the OkxOrder built from a ccxt order.
OkxOrderOf(client, order) ==
    [orderId |-> order.id,
     status |-> mapOrderStatus(client, order.status),
     timestamp |-> NumberToString(order.timestamp),
     fee |-> NumberToString(order.fee)]

\* getMyTrades: the BaseTrade built from a ccxt trade.
BaseTradeOf(trade) ==
    [id |-> trade.id,
     timestamp |-> trade.timestamp,
     fee |-> [cost |-> NumberToString(trade.fee)]]

\* getFundingRateHistory: the record built from a ccxt funding-rate entry.
FundingOf(item) ==
    [timestamp |-> NumberToString(item.timestamp),
     fundingRate |-> NumberToString(item.fundingRate),
     notional |-> IF item.notional # Absent THEN NumberToString(item.notional) ELSE NumberToString(0)]

\* Array.prototype.sort (stable) on <<key, element>> pairs: ascending keys, or
\* descending keys when desc.
RECURSIVE SortPairs(_, _)
SortPairs(pairs, desc) ==
    IF Len(pairs) <= 1 THEN pairs
    ELSE LET n == Len(pairs)
             sorted == SortPairs(SubSeq(pairs, 1, n - 1), desc)
             x == pairs[n]
             After(y) == IF desc THEN y[1] < x[1] ELSE y[1] > x[1]
             pos == IF \E k \in 1..(n - 1) : After(sorted[k])
                       THEN CHOOSE k \in 1..(n - 1) :
                                After(sorted[k]) /\ \A j \in 1..(k - 1) : ~After(sorted[j])
                       ELSE n
         IN  SubSeq(sorted, 1, pos - 1) \o <<x>> \o SubSeq(sorted, pos, n - 1)

\* The elements of allRecords, in push order: filled orders, trades, fundings.
AllRecords(orders, trades, fundings) ==
    LET filled == SelectSeq(orders, LAMBDA o : o.status = "filled")
    IN  [k \in 1..Len(filled) |->
            [type |-> "trade", timestamp |-> ParseNumber(filled[k].timestamp),
             data |-> filled[k]]]
        \o [k \in 1..Len(trades) |->
            [type |-> "trade", timestamp |-> ParseNumber(NumberToString(trades[k].timestamp)),
             data |-> trades[k]]]
        \o [k \in 1..Len(fundings) |->
            [type |-> "funding", timestamp |-> ParseNumber(fundings[k].timestamp),
             data |-> fundings[k]]]

\* The elements of a sorted sequence of <<key, element>> pairs.
Elements(pairs) == [k \in 1..Len(pairs) |-> pairs[k][2]]

\* allRecords.sort((a, b) => a.timestamp - b.timestamp)
SortOldestFirst(records) ==
    Elements(SortPairs([k \in 1..Len(records) |-> <<records[k].timestamp, records[k]>>],
                       FALSE))

\* settlementRecords.sort with the comparands exchanged: oldest first.
SortNewestFirst_Ascending(records) ==
    Elements(SortPairs([k \in 1..Len(records) |->
                           <<ParseNumber(records[k].timestamp), records[k]>>], FALSE))

\* settlementRecords.sort((a, b) => parseInt(b.timestamp) - parseInt(a.timestamp))
SortNewestFirst(records) ==
    Elements(SortPairs([k \in 1..Len(records) |->
                           <<ParseNumber(records[k].timestamp), records[k]>>], TRUE))

\* Array.prototype.slice(0, n) for n >= 0
Slice(s, n) == SubSeq(s, 1, Min(n, Len(s)))

\* trade.id || trade.tradeId: an OkxOrder has an orderId and neither field.
TradeIdOf(data) == IF "id" \in DOMAIN data THEN data.id ELSE Undefined

\* parseFloat(trade.fee?.cost || "0"): the fee of an OkxOrder is a string, which
\* has no cost.
TradeFeeOf(data) ==
    IF "id" \in DOMAIN data THEN ParseNumber(data.fee.cost) ELSE ParseNumber(NumberToString(0))

\* The duplicate check left out of the loop.
AlreadyProcessed_Never(tradeId, processedTrades) == FALSE

\* processedTrades.has(tradeId)
AlreadyProcessed(tradeId, processedTrades) == tradeId \in processedTrades

\* The settlement record pushed for a trade record.
TradeSettlement(record) ==
    LET tradeId == TradeIdOf(record.data)
        tradeFee == TradeFeeOf(record.data)
    IN  [id |-> <<"trade_", tradeId>>,
         type |-> "trade",
         amount |-> NumberToString(0),
         fee |-> NumberToString(tradeFee),
         pnl |-> NumberToString(-tradeFee),
         timestamp |-> NumberToString(record.timestamp),
         info |-> [tradeId |-> tradeId, data |-> record.data]]

\* The settlement record pushed for a funding record.
FundingSettlement(record) ==
    LET funding == record.data
        fundingRate == ParseNumber(funding.fundingRate)
        notional == ParseNumber(funding.notional)
        fundingFee == fundingRate * notional
    IN  [id |-> <<"funding_", funding.timestamp>>,
         type |-> "funding",
         amount |-> NumberToString(0),
         fee |-> NumberToString(0),
         pnl |-> NumberToString(fundingFee),
         timestamp |-> NumberToString(record.timestamp),
         info |-> [tradeId |-> Undefined, data |-> funding]]

\* for (const record of allRecords) { ... }: settlementRecords after the loop.
RECURSIVE ProcessRecords(_, _)
ProcessRecords(records, processedTrades) ==
    IF records = <<>> THEN <<>>
    ELSE LET record == Head(records)
             tradeId == TradeIdOf(record.data)
         IN  IF record.type = "trade"
                THEN IF AlreadyProcessed(tradeId, processedTrades)
                        THEN ProcessRecords(Tail(records), processedTrades)
                        ELSE <<TradeSettlement(record)>>
                             \o ProcessRecords(Tail(records), processedTrades \cup {tradeId})
                ELSE <<FundingSettlement(record)>>
                     \o ProcessRecords(Tail(records), processedTrades)

\* What getOrderHistory, getMyTrades and getFundingRateHistory can receive.
OrderHistories ==
    {<<>>} \cup { <<o>> : o \in ExchangeOrders }
    \cup { <<o, [o EXCEPT !.id = "o3"]>> : o \in ExchangeOrders }
TradeHistories == SeqsUpTo(ExchangeTrades, MaxTrades)
FundingHistories ==
    {<<>>} \cup { <<f>> : f \in ExchangeFundings }
    \cup { p \in ExchangeFundings \X ExchangeFundings : p[1] # p[2] }

InitSettle ==
    /\ RetryIdle
    /\ SymbolIdle
    /\ OrderIdle
    /\ StatusIdle
    /\ MoreIdle
    /\ sclient \in {"exchangeConfig.ts", "okxClient.ts"}
    /\ limit \in 1..MaxLimit
    /\ spc = "orders"
    /\ orderHistory = <<>>
    /\ tradeHistory = <<>>
    /\ fundingRateHistory = <<>>
    /\ settlementRecords = <<>>
    /\ sresult = <<>>

\* getOrderHistory rejects: the catch block rethrows.
OrderHistoryFails ==
    /\ spc = "orders"
    /\ spc' = "thrown"
    /\ UNCHANGED <<sclient, limit, orderHistory, tradeHistory, fundingRateHistory,
                   settlementRecords, sresult>>
    /\ UNCHANGED <<retryVars, symbolVars, orderVars, statusVars, moreVars>>

OrderHistoryLoads ==
    /\ spc = "orders"
    /\ \E orders \in OrderHistories :
          orderHistory' = [k \in 1..Len(orders) |-> OkxOrderOf(sclient, orders[k])]
    /\ spc' = "trades"
    /\ UNCHANGED <<sclient, limit, tradeHistory, fundingRateHistory,
                   settlementRecords, sresult>>
    /\ UNCHANGED <<retryVars, symbolVars, orderVars, statusVars, moreVars>>

\* getMyTrades throws after its retries: the catch block rethrows.
TradeHistoryFails ==
    /\ spc = "trades"
    /\ spc' = "thrown"
    /\ UNCHANGED <<sclient, limit, orderHistory, tradeHistory, fundingRateHistory,
                   settlementRecords, sresult>>
    /\ UNCHANGED <<retryVars, symbolVars, orderVars, statusVars, moreVars>>

TradeHistoryLoads ==
    /\ spc = "trades"
    /\ \E trades \in TradeHistories :
          tradeHistory' = [k \in 1..Len(trades) |-> BaseTradeOf(trades[k])]
    /\ spc' = "funding"
    /\ UNCHANGED <<sclient, limit, orderHistory, fundingRateHistory,
                   settlementRecords, sresult>>
    /\ UNCHANGED <<retryVars, symbolVars, orderVars, statusVars, moreVars>>

\* The rest of the method, from the funding history to the return statement.
Synthesize(fundings) ==
    LET records == ProcessRecords(
                       SortOldestFirst(AllRecords(orderHistory, tradeHistory, fundings)), {})
    IN  /\ fundingRateHistory' = fundings
        /\ settlementRecords' = records
        /\ sresult' = Slice(SortNewestFirst(records), limit)
        /\ spc' = "returned"

\* fetchFundingRateHistory rejects: getFundingRateHistory returns [].
FundingHistoryFails ==
    /\ spc = "funding"
    /\ Synthesize(<<>>)
    /\ UNCHANGED <<sclient, limit, orderHistory, tradeHistory>>
    /\ UNCHANGED <<retryVars, symbolVars, orderVars, statusVars, moreVars>>

FundingHistoryLoads ==
    /\ spc = "funding"
    /\ \E fundings \in FundingHistories :
          Synthesize([k \in 1..Len(fundings) |-> FundingOf(fundings[k])])
    /\ UNCHANGED <<sclient, limit, orderHistory, tradeHistory>>
    /\ UNCHANGED <<retryVars, symbolVars, orderVars, statusVars, moreVars>>

NextSettle ==
    \/ OrderHistoryFails
    \/ OrderHistoryLoads
    \/ TradeHistoryFails
    \/ TradeHistoryLoads
    \/ FundingHistoryFails
    \/ FundingHistoryLoads

SpecSettle == InitSettle /\ [][NextSettle]_vars

\* The trade ids occurring in the input trade records.
InputTradeIds == { tradeHistory[k].id : k \in 1..Len(tradeHistory) }

\* The positions of the returned list holding a trade record of the trade id.
TradeRecordsFor(id) ==
    { k \in 1..Len(sresult) : sresult[k].type = "trade" /\ sresult[k].info.tradeId = id }

\* C6 as stated: the returned list holds exactly one record for every trade id
\* occurring in the input trade records.
C6_OnePerTradeId ==
    spc = "returned" => \A id \in InputTradeIds : Cardinality(TradeRecordsFor(id)) = 1

\* C6: no two trade records of the returned list carry the same trade id, and
\* when limit is at least the number of synthesized records the list holds
\* exactly one record for every trade id occurring in the input trade records.
C6_OnePerTradeIdUntruncated ==
    spc = "returned" =>
        /\ \A j, k \in 1..Len(sresult) :
              (j # k /\ sresult[j].type = "trade" /\ sresult[k].type = "trade")
                  => sresult[j].info.tradeId # sresult[k].info.tradeId
        /\ Len(settlementRecords) <= limit
              => \A id \in InputTradeIds : Cardinality(TradeRecordsFor(id)) = 1

\* Trade t1 reported twice and trade t2 once: two trade records come back.
C6_Witness ==
    /\ spc = "returned"
    /\ Len(tradeHistory) = 3
    /\ InputTradeIds = {"t1", "t2"}
    /\ Len(settlementRecords) <= limit
    /\ Cardinality(TradeRecordsFor("t1")) = 1
    /\ Cardinality(TradeRecordsFor("t2")) = 1

\* The number of positions of a list holding the record.
Occurrences(record, list) == Cardinality({ k \in 1..Len(list) : list[k] = record })

\* C7: the returned list is in descending timestamp order, has length
\* min(limit, number of synthesized records), holds synthesized records only,
\* and no record left out is newer than a record kept.
C7_NewestFirstTruncated ==
    spc = "returned" =>
        /\ \A k \in 1..(Len(sresult) - 1) :
              ParseNumber(sresult[k].timestamp) >= ParseNumber(sresult[k + 1].timestamp)
        /\ Len(sresult) = Min(limit, Len(settlementRecords))
        /\ \A k \in 1..Len(sresult) :
              Occurrences(sresult[k], sresult) <= Occurrences(sresult[k], settlementRecords)
        /\ \A j \in 1..Len(settlementRecords) :
              Occurrences(settlementRecords[j], sresult)
                    < Occurrences(settlementRecords[j], settlementRecords)
                 => \A k \in 1..Len(sresult) :
                        ParseNumber(settlementRecords[j].timestamp)
                            <= ParseNumber(sresult[k].timestamp)

\* Four synthesized records and limit 2: the two newest come back, newest first.
C7_Witness ==
    /\ spc = "returned"
    /\ limit = 2
    /\ Len(settlementRecords) = 4
    /\ Len(sresult) = 2
    /\ ParseNumber(sresult[1].timestamp) = 5
    /\ ParseNumber(sresult[2].timestamp) = 4

\* C8: every trade record of the returned list has pnl = -fee and pnl <= 0, and
\* every funding record has pnl = fundingRate * notional and fee 0.
C8_FeeAsNegativePnl ==
    spc = "returned" =>
        \A k \in 1..Len(sresult) :
            IF sresult[k].type = "trade"
               THEN /\ ParseNumber(sresult[k].pnl) = -ParseNumber(sresult[k].fee)
                    /\ ParseNumber(sresult[k].pnl) <= 0
               ELSE /\ ParseNumber(sresult[k].pnl) =
                          ParseNumber(sresult[k].info.data.fundingRate)
                              * ParseNumber(sresult[k].info.data.notional)
                    /\ ParseNumber(sresult[k].fee) = 0

\* The reads of the sanitization stage of placeOrder.
SanitizationReads == {"getContractInfo", "getFuturesTicker"}

\* C14: on either venue a failed contract-metadata or mark-price read never
\* makes placeOrder fail and never keeps the order from being submitted: a
\* placeOrder that throws has submitted an order and throws no error of a
\* sanitization-stage read.
C14_ReadFailureSkipsAdjustment ==
    opc = "thrown" =>
        /\ othrown.from \notin SanitizationReads
        /\ submitted # <<>>

\* The name matches no entry of the venue's contract list, in either notation.
MatchesNoEntry(v, contract) ==
    IF v = "gate"
       THEN \A name \in GateContractList : name # contract
       ELSE \A c \in OkxMarkets :
               /\ c.instId # contract
               /\ c.instId # gateToOkxSymbol(contract)
               /\ c.symbol # contract

\* C15: for a contract name that matches no entry of the exchange's list,
\* getContractInfo never resolves: it throws the missing-contract error (or the
\* error of the failed list request), and placeOrder throws that error with no
\* order submitted.
C15_MissingContractFails ==
    (MatchesNoEntry(venue, params.contract) /\ opc # "contractInfo") =>
        /\ opc = "thrown"
        /\ submitted = <<>>
        /\ othrown = caught
        /\ othrown.from = "getContractInfo"
        /\ othrown = MissingContract \/ othrown.message = ""

C15_Witness ==
    /\ venue = "okx"
    /\ params.contract = XYZ_USDT
    /\ MatchesNoEntry(venue, params.contract)
    /\ opc = "thrown"
    /\ othrown = MissingContract
    /\ submitted = <<>>

(***************************************************************************)
(* The status of the orders the clients return                             *)
(***************************************************************************)

\* How an operation sets the status of the order it returns.
Mapped == "this.mapOrderStatus(order.status)"
Raw == "the exchange's status"
BySCode == "order.info.sCode == 0 ? finished : open"

\* The operations that return orders.
StatusOps ==
    { [client |-> "exchangeConfig.ts", name |-> n, rule |-> Mapped] :
        n \in {"placeOrder", "getOrder", "getOpenOrders", "getOrderHistory"} }
    \cup { [client |-> "exchangeConfig.ts", name |-> "cancelOrder", rule |-> BySCode] }
    \cup { [client |-> "okxClient.ts", name |-> n, rule |-> Mapped] :
        n \in {"getOrder", "cancelOrder", "getOpenOrders", "getOrderHistory"} }
    \cup { [client |-> "okxClient.ts", name |-> "placeOrder", rule |-> Raw] }
    \cup { [client |-> "gateClient.ts", name |-> n, rule |-> Raw] :
        n \in {"placeOrder", "getOrder", "cancelOrder", "getOpenOrders"} }

\* The statuses of ccxt orders (OKX) and of Gate.io futures orders.
OkxRawStatuses ==
    {"open", "closed", "canceled", "cancelled", "expired", "rejected", "filled",
     "CLOSED", "Canceled", "Expired", "partially_filled", Undefined}
GateRawStatuses == {"open", "finished"}

\* The operations of the Gate-compatible OKX client that build the completion
\* fields from the status of the exchange's order.
BuildsFinishFromStatus(o) ==
    o.client = "exchangeConfig.ts" /\ o.name \in {"placeOrder", "getOrder", "getOpenOrders"}

\* Math.floor((order.timestamp || Date.now()) / 1000), on a clock whose
\* millisecond values stay below 2^31.
Seconds(ts) == (IF ts # 0 THEN ts ELSE 1762300800) \div 1000

\* No finishAs or finishTime is set by the client.
NoFinish == [finishAs |-> Undefined, finishTime |-> Absent]

\* The finishAs and finishTime of the order an operation returns. The status
\* of the exchange's order is compared as it is, not lowercased.
FinishFields(o, rawStatus, ts) ==
    IF BuildsFinishFromStatus(o)
       THEN [finishAs |-> IF rawStatus \in {"closed", "filled"} THEN "filled"
                          ELSE IF rawStatus \in {"canceled", "cancelled"} THEN "cancelled"
                          ELSE "-",
             finishTime |-> IF rawStatus \in {"closed", "filled", "canceled", "cancelled"}
                               THEN Seconds(ts) ELSE 0]
    ELSE IF o.client = "exchangeConfig.ts" /\ o.name = "cancelOrder"
       THEN [finishAs |-> "cancelled", finishTime |-> Seconds(ts)]
    ELSE NoFinish

InitStatus ==
    /\ RetryIdle
    /\ SymbolIdle
    /\ OrderIdle
    /\ SettleIdle
    /\ MoreIdle
    /\ statusOp \in StatusOps
    /\ status \in (IF statusOp.client = "gateClient.ts" THEN GateRawStatuses
                                                        ELSE OkxRawStatuses)
    /\ sCode \in {0, 51400}
    /\ orderStatus = "pending"
    /\ timestamp \in {0, 1700000000}
    /\ orderFinish = NoFinish

\* The operation builds the order it returns.
ReturnOrder ==
    /\ orderStatus = "pending"
    /\ orderStatus' =
          CASE statusOp.rule = Mapped -> mapOrderStatus(statusOp.client, status)
            [] statusOp.rule = BySCode -> (IF sCode = 0 THEN "finished" ELSE "open")
            [] OTHER -> status
    /\ orderFinish' = FinishFields(statusOp, status, timestamp)
    /\ UNCHANGED <<statusOp, status, sCode, timestamp>>
    /\ UNCHANGED <<retryVars, symbolVars, orderVars, settleVars, moreVars>>

NextStatus == ReturnOrder

SpecStatus == InitStatus /\ [][NextStatus]_vars

\* The five canonical statuses.
CanonicalStatuses == {"open", "filled", "cancelled", "expired", "rejected"}

\* The raw statuses the mapper has a case for.
RecognizedStatuses ==
    {"open", "closed", "filled", "canceled", "cancelled", "expired", "rejected"}

\* C12: every order a client returns carries one of the five canonical statuses
\* open, filled, cancelled, expired, rejected, and a mapped order whose raw
\* status is unrecognized or absent carries open.
C12_FiveCanonicalStatuses ==
    orderStatus # "pending" =>
        /\ orderStatus \in CanonicalStatuses
        /\ (statusOp.rule = Mapped
            /\ (status = Undefined \/ ToLowerCase(status) \notin RecognizedStatuses))
               => orderStatus = "open"

\* The operations of the Gate-compatible OKX client that return orders with
\* completion fields.
CompletionOps == {"placeOrder", "getOrder", "cancelOrder", "getOpenOrders"}

\* C29: an order returned by placeOrder, getOrder, cancelOrder or getOpenOrders
\* of the Gate-compatible OKX client has status "finished" exactly when its
\* finishAs is "filled" or "cancelled" and exactly when its finishTime is not 0;
\* an order with status "open" has finishAs "-" and finishTime 0.
C29_CompletionFieldsConsistent ==
    (orderStatus # "pending" /\ statusOp.client = "exchangeConfig.ts"
     /\ statusOp.name \in CompletionOps) =>
        /\ orderStatus = "finished" <=> orderFinish.finishAs \in {"filled", "cancelled"}
        /\ orderStatus = "finished" <=> orderFinish.finishTime # 0
        /\ orderStatus = "open" =>
               orderFinish.finishAs = "-" /\ orderFinish.finishTime = 0

\* The completion fields agree with the status for the orders placeOrder,
\* getOrder and getOpenOrders build from a lowercase or absent exchange status.
C29_LowercaseStatusConsistent ==
    (orderStatus # "pending" /\ BuildsFinishFromStatus(statusOp)
     /\ (status = Undefined \/ ToLowerCase(status) = status)) =>
        /\ orderStatus = "finished" <=> orderFinish.finishAs \in {"filled", "cancelled"}
        /\ orderStatus = "finished" <=> orderFinish.finishTime # 0
        /\ orderStatus = "open" =>
               orderFinish.finishAs = "-" /\ orderFinish.finishTime = 0

(***************************************************************************)
(* cancelOrder                                                             *)
(***************************************************************************)

CancelClients == {"gateClient.ts", "exchangeConfig.ts", "okxClient.ts"}

\* The states an order has at the exchange.
OrderStates == {"open", "filled", "cancelled", "expired", "rejected"}
TerminalStates == OrderStates \ {"open"}

\* The errors of the exchange's cancel call, and the error cancelOrder makes
\* itself when its loop ends without one.
OrderNotFound == "OrderNotFound"
NetworkError == "NetworkError"
CancelFailed == "new Error: cancel order failed"
NoCancelError == ""
NoCancelResult == [status |-> "", finishAs |-> ""]

\* The status ccxt gives an OKX order in state s.
CcxtStatus(s) ==
    CASE s = "filled" -> "closed"
      [] s = "cancelled" -> "canceled"
      [] OTHER -> s

\* What the exchange's cancel call resolves with for an order left in state s:
\* Gate.io answers with the order, ccxt with the parsed acknowledgement, whose
\* status may be absent.
CancelResponses(client, s) ==
    IF client = "gateClient.ts"
       THEN { [status |-> IF s = "open" THEN "open" ELSE "finished",
               finishAs |-> IF s = "open" THEN "" ELSE s, sCode |-> 0] }
       ELSE { [status |-> st, finishAs |-> "", sCode |-> c] :
                st \in {CcxtStatus(s), Undefined}, c \in {0, 51400} }

\* The order cancelOrder returns for a response of the exchange.
CancelledOrder(client, response) ==
    CASE client = "gateClient.ts" ->
            [status |-> response.status, finishAs |-> response.finishAs]
      [] client = "exchangeConfig.ts" ->
            [status |-> IF response.sCode = 0 THEN "finished" ELSE "open",
             finishAs |-> "cancelled"]
      [] OTHER ->
            [status |-> mapOrderStatus(client, response.status), finishAs |-> ""]

\* The OKX clients loop while i < retries; the Gate.io client calls once.
CancelLoops(client) == client # "gateClient.ts"

InitCancel ==
    /\ RetryIdle
    /\ SymbolIdle
    /\ OrderIdle
    /\ SettleIdle
    /\ StatusIdle
    /\ SurfaceIdle
    /\ PositionsIdle
    /\ ConvertIdle
    /\ LateIdle
    /\ cclient \in CancelClients
    /\ cretries \in (IF CancelLoops(cclient) THEN 0..MaxRetries ELSE {1})
    /\ exState \in OrderStates
    /\ atCall = exState
    /\ ci = 0
    /\ cLastError = NoCancelError
    /\ cpc = "loop"
    /\ cresult = NoCancelResult
    /\ cthrown = NoCancelError

\* The exchange's cancel call resolves: an open order is cancelled, an order in
\* a terminal state stays as it is.
CancelResolves ==
    /\ cpc = "loop"
    /\ ci < cretries
    /\ exState' = IF exState = "open" THEN "cancelled" ELSE exState
    /\ \E response \in CancelResponses(cclient, exState') :
          cresult' = CancelledOrder(cclient, response)
    /\ cpc' = "returned"
    /\ UNCHANGED <<cclient, cretries, atCall, ci, cLastError, cthrown>>
    /\ UNCHANGED <<retryVars, symbolVars, orderVars, settleVars, statusVars,
                   surfaceVars, positionVars, convertVars, lateVars>>

\* The exchange's cancel call rejects: the order is not cancellable, or the
\* request did not get through.  The Gate.io client rethrows, the OKX clients
\* keep the error and go round the loop.
CancelRejects ==
    /\ cpc = "loop"
    /\ ci < cretries
    /\ \E e \in (IF exState \in TerminalStates THEN {OrderNotFound, NetworkError}
                                               ELSE {NetworkError}) :
          IF CancelLoops(cclient)
             THEN cLastError' = e /\ ci' = ci + 1 /\ UNCHANGED <<cpc, cthrown>>
             ELSE cthrown' = e /\ cpc' = "thrown" /\ UNCHANGED <<cLastError, ci>>
    /\ UNCHANGED <<cclient, cretries, exState, atCall, cresult>>
    /\ UNCHANGED <<retryVars, symbolVars, orderVars, settleVars, statusVars,
                   surfaceVars, positionVars, convertVars, lateVars>>

\* The loop of an OKX client ends without a return.
CancelExhausted ==
    /\ cpc = "loop"
    /\ CancelLoops(cclient)
    /\ ~(ci < cretries)
    /\ cthrown' = IF cLastError # NoCancelError THEN cLastError ELSE CancelFailed
    /\ cpc' = "thrown"
    /\ UNCHANGED <<cclient, cretries, exState, atCall, ci, cLastError, cresult>>
    /\ UNCHANGED <<retryVars, symbolVars, orderVars, settleVars, statusVars,
                   surfaceVars, positionVars, convertVars, lateVars>>

NextCancel == CancelResolves \/ CancelRejects \/ CancelExhausted

SpecCancel == InitCancel /\ [][NextCancel]_vars

\* The order o reports the state s: a BaseOrder by status and finishAs, an
\* OkxOrder by its status.
ReportsState(client, o, s) ==
    IF client = "okxClient.ts"
       THEN o.status = s
       ELSE IF s = "open" THEN o.status = "open"
                          ELSE o.status = "finished" /\ o.finishAs = s

\* C13: cancelOrder called on an order that is already filled, cancelled,
\* expired or rejected does not throw, returns the order in that state, and
\* leaves the order's state at the exchange as it was.
C13_TerminalCancelIsNoOp ==
    (atCall \in TerminalStates /\ cpc \in {"returned", "thrown"}) =>
        /\ cpc = "returned"
        /\ ReportsState(cclient, cresult, atCall)
        /\ exState = atCall

(***************************************************************************)
(* What a public operation hands its caller when its remote call fails     *)
(***************************************************************************)

\* try { ... } catch (error) { throw error }
Once == "one call"
\* What the catch block of an operation does with the error.
Rethrow == "throw error"
KeepAndLoop == "lastError = error"
ReturnEmpty == "return []"


SurfaceOps ==
    { [client |-> o.client, name |-> o.name, loop |-> o.loop, handler |-> KeepAndLoop] :
        o \in RetryOps }
    \cup { [client |-> "okx", name |-> "getSettlementHistory",
            loop |-> ExclusiveLoop, handler |-> KeepAndLoop] }
    \cup { [client |-> "gate", name |-> n, loop |-> Once, handler |-> Rethrow] :
            n \in {"getOrder", "cancelOrder", "getOpenOrders", "setLeverage",
                   "getFundingRate", "getContractInfo", "getAllContracts",
                   "getOrderBook", "getMyTrades", "getPositionHistory",
                   "getSettlementHistory", "getOrderHistory"} }
    \cup { [client |-> "okx", name |-> n, loop |-> Once, handler |-> Rethrow] :
            n \in {"placeOrder", "getOpenOrders", "setLeverage", "getContractInfo",
                   "getOrderHistory", "calculateSettlementHistoryFromOrders"} }
    \cup { [client |-> "okx", name |-> "getFundingRateHistory",
            loop |-> Once, handler |-> ReturnEmpty] }

\* The values an operation returns.
RemoteData == "the converted response"
EmptyList == "[]"
NothingReturned == ""

\* Whether the operation makes (another) remote call.
CallsRemote(o, idx, n) ==
    IF o.loop = Once THEN idx = 0 ELSE LoopCondition(o, idx, n)

InitSurface ==
    /\ RetryIdle
    /\ SymbolIdle
    /\ OrderIdle
    /\ SettleIdle
    /\ StatusIdle
    /\ CancelIdle
    /\ PositionsIdle
    /\ ConvertIdle
    /\ LateIdle
    /\ fop \in SurfaceOps
    /\ fretries \in (IF fop.loop = Once THEN {0}
                     ELSE IF fop.name = "getSettlementHistory" THEN {SettlementRetries}
                     ELSE 0..MaxRetries)
    /\ fi = 0
    /\ fLastError = NoError
    /\ flast = "none"
    /\ fpc = "call"
    /\ freturned = NothingReturned
    /\ fthrown = NoError

\* The remote call resolves: the converted response is returned.
RemoteResolves ==
    /\ fpc = "call"
    /\ CallsRemote(fop, fi, fretries)
    /\ flast' = "resolved"
    /\ freturned' = RemoteData
    /\ fpc' = "returned"
    /\ UNCHANGED <<fop, fretries, fi, fLastError, fthrown>>
    /\ UNCHANGED <<retryVars, symbolVars, orderVars, settleVars, statusVars,
                   cancelVars, positionVars, convertVars, lateVars>>

\* The remote call rejects with error number fi + 1: the catch block runs.
RemoteRejects ==
    /\ fpc = "call"
    /\ CallsRemote(fop, fi, fretries)
    /\ flast' = "rejected"
    /\ fi' = fi + 1
    /\ CASE fop.handler = Rethrow ->
               /\ fthrown' = fi + 1
               /\ fpc' = "thrown"
               /\ UNCHANGED <<fLastError, freturned>>
         [] fop.handler = ReturnEmpty ->
               /\ freturned' = EmptyList
               /\ fpc' = "returned"
               /\ UNCHANGED <<fLastError, fthrown>>
         [] OTHER ->
               /\ fLastError' = fi + 1
               /\ UNCHANGED <<fpc, freturned, fthrown>>
    /\ UNCHANGED <<fop, fretries>>
    /\ UNCHANGED <<retryVars, symbolVars, orderVars, settleVars, statusVars,
                   cancelVars, positionVars, convertVars, lateVars>>

\* The loop ends without a return: the statement after it throws.
SurfaceLoopExhausted ==
    /\ fpc = "call"
    /\ fop.loop # Once
    /\ ~CallsRemote(fop, fi, fretries)
    /\ fthrown' = ThrownAfterLoop(fop, fLastError)
    /\ fpc' = "thrown"
    /\ UNCHANGED <<fop, fretries, fi, fLastError, flast, freturned>>
    /\ UNCHANGED <<retryVars, symbolVars, orderVars, settleVars, statusVars,
                   cancelVars, positionVars, convertVars, lateVars>>

NextSurface == RemoteResolves \/ RemoteRejects \/ SurfaceLoopExhausted

SpecSurface == InitSurface /\ [][NextSurface]_vars

\* C16: an operation whose latest remote call was rejected does not return: it
\* goes on to another attempt or throws, and a value an operation returns is
\* the converted response of a remote call that resolved.
C16_TerminalFailureThrows ==
    /\ (flast = "rejected" /\ fpc # "call") => fpc = "thrown"
    /\ fpc = "returned" => (flast = "resolved" /\ freturned = RemoteData)

(***************************************************************************)
(* getPositions                                                            *)
(***************************************************************************)

\* Longest position list explored.
MaxPositions == 2

PositionClients == {"gateClient.ts", "exchangeConfig.ts", "okxClient.ts"}

\* RISK_PARAMS.TRADING_SYMBOLS: the configured base currencies.
TRADING_SYMBOLS == {<<"B">>, <<"E">>}

\* A position the account holds: base currency, number of contracts, direction.
ExchangePositions ==
    { [base |-> b, qty |-> q, side |-> d] :
        b \in {<<"B">>, <<"D">>}, q \in {0, 3}, d \in {"long", "short"} }

\* The object listPositions reports for a position: direction in the sign of size.
GatePositionOf(x) ==
    [contract |-> x.base \o <<"_", "U">>,
     size |-> IF x.side = "long" THEN x.qty ELSE -x.qty,
     side |-> ""]

\* The object ccxt's fetchPositions reports: unsigned contracts and a side.
CcxtPositionOf(x) ==
    [symbol |-> x.base \o <<"/", "U", ":", "U">>, contracts |-> x.qty, side |-> x.side]

\* gateClient.ts: the filter of getPositions.
GateKeeps(p) ==
    LET sym == Split(p.contract, "_")[1]
    IN  sym # <<>> /\ sym \in TRADING_SYMBOLS

\* exchangeConfig.ts, okxClient.ts: the filter of getPositions.
OkxKeeps(p) ==
    IF p.contracts = 0 THEN FALSE
    ELSE LET sym == Split(p.symbol, "/")[1]
         IN  sym # <<>> /\ sym \in TRADING_SYMBOLS

\* exchangeConfig.ts: the Position built from a ccxt position.
GatePositionFromCcxt(p) ==
    LET contracts == p.contracts
        signedSize == IF p.side = "long" THEN contracts ELSE -contracts
    IN  [contract |-> okxToGateSymbol(p.symbol),
         size |-> NumberToString(signedSize),
         side |-> ""]

\* okxClient.ts: the OkxPosition built from a ccxt position.
OkxPositionFromCcxt(p) ==
    [contract |-> ReplaceFirst(ReplaceFirst(p.symbol, "/", "_"), ":", "_"),
     size |-> p.contracts,
     side |-> p.side]

\* Array.prototype.filter
RECURSIVE Filter(_, _)
Filter(list, keep) ==
    IF list = <<>> THEN <<>>
    ELSE (IF keep[Head(list)] THEN <<Head(list)>> ELSE <<>>) \o Filter(Tail(list), keep)

\* The list getPositions returns when the exchange reports the list xs.
ReturnedPositions(client, xs) ==
    IF client = "gateClient.ts"
       THEN LET all == [k \in 1..Len(xs) |-> GatePositionOf(xs[k])]
            IN  Filter(all, [p \in { all[k] : k \in 1..Len(all) } |-> GateKeeps(p)])
       ELSE LET all == [k \in 1..Len(xs) |-> CcxtPositionOf(xs[k])]
                kept == Filter(all, [p \in { all[k] : k \in 1..Len(all) } |-> OkxKeeps(p)])
            IN  [k \in 1..Len(kept) |->
                    IF client = "exchangeConfig.ts" THEN GatePositionFromCcxt(kept[k])
                                                    ELSE OkxPositionFromCcxt(kept[k])]

InitPositions ==
    /\ RetryIdle
    /\ SymbolIdle
    /\ OrderIdle
    /\ SettleIdle
    /\ StatusIdle
    /\ CancelIdle
    /\ SurfaceIdle
    /\ ConvertIdle
    /\ LateIdle
    /\ pclient \in PositionClients
    /\ pretries \in 0..MaxRetries
    /\ pidx = 0
    /\ exPositions \in SeqsUpTo(ExchangePositions, MaxPositions)
    /\ ppc = "loop"
    /\ positions = <<>>
    /\ pthrown = FALSE

\* The exchange answers: the list is filtered, converted and returned.
PositionsLoad ==
    /\ ppc = "loop"
    /\ pidx <= pretries
    /\ positions' = ReturnedPositions(pclient, exPositions)
    /\ ppc' = "returned"
    /\ UNCHANGED <<pclient, pretries, pidx, exPositions, pthrown>>
    /\ UNCHANGED <<retryVars, symbolVars, orderVars, settleVars, statusVars,
                   cancelVars, surfaceVars, convertVars, lateVars>>

\* The request fails: the loop goes round.
PositionsFail ==
    /\ ppc = "loop"
    /\ pidx <= pretries
    /\ pidx' = pidx + 1
    /\ UNCHANGED <<pclient, pretries, exPositions, ppc, positions, pthrown>>
    /\ UNCHANGED <<retryVars, symbolVars, orderVars, settleVars, statusVars,
                   cancelVars, surfaceVars, convertVars, lateVars>>

\* The loop ends: throw lastError.
PositionsExhausted ==
    /\ ppc = "loop"
    /\ ~(pidx <= pretries)
    /\ pthrown' = TRUE
    /\ ppc' = "thrown"
    /\ UNCHANGED <<pclient, pretries, pidx, exPositions, positions>>
    /\ UNCHANGED <<retryVars, symbolVars, orderVars, settleVars, statusVars,
                   cancelVars, surfaceVars, convertVars, lateVars>>

NextPositions == PositionsLoad \/ PositionsFail \/ PositionsExhausted

SpecPositions == InitPositions /\ [][NextPositions]_vars

\* The size of a returned position as a number.
SizeOf(client, p) ==
    IF client = "exchangeConfig.ts" THEN ParseNumber(p.size) ELSE p.size

\* The positions of the exchange that qualify: allowed base, size not zero.
Qualifying(xs) ==
    Filter(xs, [x \in { xs[k] : k \in 1..Len(xs) } |->
                   x.base \in TRADING_SYMBOLS /\ x.qty # 0])

\* C17: the list getPositions returns holds, in the exchange's order, exactly
\* the reported positions with an allowed base currency and a non-zero size.
C17_AllowedNonZeroPositions ==
    ppc = "returned" =>
        LET q == Qualifying(exPositions)
        IN  /\ Len(positions) = Len(q)
            /\ \A k \in 1..Len(positions) :
                  /\ SizeOf(pclient, positions[k]) # 0
                  /\ Split(positions[k].contract, "_")[1] = q[k].base
                  /\ Abs(SizeOf(pclient, positions[k])) = q[k].qty

\* C18: every position an OKX client returns has size > 0 exactly when the
\* exchange reports it long and size < 0 exactly when it reports it short.
C18_SignIsDirection ==
    (ppc = "returned" /\ pclient # "gateClient.ts") =>
        LET q == Qualifying(exPositions)
        IN  \A k \in 1..Len(positions) :
               /\ SizeOf(pclient, positions[k]) > 0 <=> q[k].side = "long"
               /\ SizeOf(pclient, positions[k]) < 0 <=> q[k].side = "short"

(***************************************************************************)
(* The format converter (ExchangeConverterImpl)                            *)
(***************************************************************************)

\* Most fields a payload of a per-entity converter carries.
MaxFields == 2

\* JavaScript values: a type and the text of the value.
Str(v) == [t |-> "string", v |-> v]
Num(v) == [t |-> "number", v |-> v]
Bool(v) == [t |-> "boolean", v |-> v]
UndefinedValue == [t |-> "undefined", v |-> ""]

\* The values a field of a payload holds when it is present.
FieldValues == {Str("7"), Str("")}

\* data.f
Get(data, f) == IF f \in DOMAIN data THEN data[f] ELSE UndefinedValue

\* ToBoolean
Truthy(x) ==
    CASE x.t = "undefined" -> FALSE
      [] x.t = "string" -> x.v # ""
      [] x.t = "number" -> x.v \notin {"0", "NaN"}
      [] OTHER -> x.v = "true"

\* data.a || data.b || ... || fallback
RECURSIVE FirstTruthy(_, _, _)
FirstTruthy(data, from, fallback) ==
    IF from = <<>> THEN fallback
    ELSE IF Truthy(Get(data, Head(from))) THEN Get(data, Head(from))
    ELSE FirstTruthy(data, Tail(from), fallback)

\* parseFloat / parseInt of the strings explored.
ParseFloat(x) ==
    IF x.t = "string" /\ x.v \in {"0", "7"} THEN Num(x.v) ELSE Num("NaN")

\* One line of a converter: the field written, the fields read in order, the
\* fallback, and whether the value goes through parseFloat / parseInt.
Field(name, from, fallback) ==
    [field |-> name, from |-> from, fallback |-> fallback, parse |-> FALSE]
Parsed(name, from, fallback) ==
    [field |-> name, from |-> from, fallback |-> fallback, parse |-> TRUE]

\* part_000 217-226
convertAccountFromGateIo ==
    << Field("currency", <<"currency">>, Str("")),
       Field("total", <<"total">>, Str("0")),
       Field("available", <<"available">>, Str("0")),
       Field("position_margin", <<"position_margin", "positionMargin">>, Str("0")),
       Field("order_margin", <<"order_margin", "orderMargin">>, Str("0")),
       Field("unrealised_pnl", <<"unrealised_pnl", "unrealisedPnl">>, Str("0")) >>

\* part_000 234-246
convertPositionFromGateIo ==
    << Field("contract", <<"contract">>, Str("")),
       Field("size", <<"size">>, Str("0")),
       Field("leverage", <<"leverage">>, Str("1")),
       Field("entry_price", <<"entry_price", "entryPrice">>, Str("0")),
       Field("mark_price", <<"mark_price", "markPrice">>, Str("0")),
       Field("liq_price", <<"liq_price", "liqPrice">>, Str("0")),
       Field("unrealised_pnl", <<"unrealised_pnl", "unrealisedPnl">>, Str("0")),
       Field("realised_pnl", <<"realised_pnl", "realisedPnl">>, Str("0")),
       Field("margin", <<"margin">>, Str("0")) >>

\* part_000 254-265
convertTickerFromGateIo ==
    << Field("contract", <<"contract">>, Str("")),
       Field("last", <<"last">>, Str("0")),
       Field("mark_price", <<"mark_price", "markPrice">>, Str("0")),
       Field("index_price", <<"index_price", "indexPrice">>, Str("0")),
       Field("high_24h", <<"high_24h", "high24h">>, Str("0")),
       Field("low_24h", <<"low_24h", "low24h">>, Str("0")),
       Field("volume_24h", <<"volume_24h", "volume24h">>, Str("0")),
       Field("change_percentage", <<"change_percentage", "changePercentage">>, Str("0")) >>

\* part_000 273-293
convertOrderFromGateIo ==
    << Field("id", <<"id">>, Str("")),
       Field("contract", <<"contract">>, Str("")),
       Field("size", <<"size">>, Str("0")),
       Field("price", <<"price">>, Str("0")),
       Field("tif", <<"tif">>, Str("GTC")),
       Field("isReduceOnly", <<"isReduceOnly", "reduceOnly", "reduce_only", "is_reduce_only">>, Bool("false")),
       Field("autoSize", <<"autoSize", "auto_size">>, Str("")),
       Field("stopLoss", <<"stopLoss", "stop_loss">>, Num("0")),
       Field("takeProfit", <<"takeProfit", "take_profit">>, Num("0")),
       Field("status", <<"status">>, Str("")),
       Field("create_time", <<"create_time", "createTime">>, Num("0")),
       Field("update_time", <<"update_time", "updateTime">>, Num("0")),
       Field("fill_price", <<"fill_price", "fillPrice">>, Str("0")),
       Field("filled_total", <<"filled_total", "filledTotal">>, Str("0")),
       Field("fee", <<"fee">>, Str("0")),
       Field("fee_currency", <<"fee_currency", "feeCurrency">>, Str("")),
       Field("left", <<"left">>, Str("0")) >>

\* part_000 301-310
convertCandleFromGateIo ==
    << Field("timestamp", <<"timestamp">>, Num("0")),
       Field("volume", <<"volume">>, Str("0")),
       Field("close", <<"close">>, Str("0")),
       Field("high", <<"high">>, Str("0")),
       Field("low", <<"low">>, Str("0")),
       Field("open", <<"open">>, Str("0")) >>

\* part_000 318-334
convertContractFromGateIo ==
    << Field("id", <<"id">>, Str("")),
       Field("name", <<"name">>, Str("")),
       Field("contract", <<"contract">>, Str("")),
       Field("settle", <<"settle">>, Str("")),
       Field("base", <<"base">>, Str("")),
       Field("quote", <<"quote">>, Str("")),
       Field("type", <<"type">>, Str("")),
       Field("leverage_min", <<"leverage_min", "leverageMin">>, Str("1")),
       Field("leverage_max", <<"leverage_max", "leverageMax">>, Str("100")),
       Field("order_size_min", <<"order_size_min", "orderSizeMin">>, Num("0")),
       Field("order_size_max", <<"order_size_max", "orderSizeMax">>, Num("0")),
       Field("order_price_min", <<"order_price_min", "orderPriceMin">>, Num("0")),
       Field("order_price_max", <<"order_price_max", "orderPriceMax">>, Num("0")) >>

\* part_000 424-433
convertAccountFromOkx ==
    << Field("currency", <<"ccy">>, Str("")),
       Field("total", <<"totalEq">>, Str("0")),
       Field("available", <<"availEq">>, Str("0")),
       Field("position_margin", <<"imr">>, Str("0")),
       Field("order_margin", <<"ordFroz">>, Str("0")),
       Field("unrealised_pnl", <<"upl">>, Str("0")) >>

\* part_000 441-453
convertPositionFromOkx ==
    << Field("contract", <<"instId">>, Str("")),
       Field("size", <<"posSize">>, Str("0")),
       Field("leverage", <<"lever">>, Str("1")),
       Field("entry_price", <<"avgPx">>, Str("0")),
       Field("mark_price", <<"markPx">>, Str("0")),
       Field("liq_price", <<"liqPx">>, Str("0")),
       Field("unrealised_pnl", <<"upl">>, Str("0")),
       Field("realised_pnl", <<"realisedPnl">>, Str("0")),
       Field("margin", <<"margin">>, Str("0")) >>

\* part_000 461-472
convertTickerFromOkx ==
    << Field("contract", <<"instId">>, Str("")),
       Field("last", <<"last">>, Str("0")),
       Field("mark_price", <<"markPx">>, Str("0")),
       Field("index_price", <<"idxPx">>, Str("0")),
       Field("high_24h", <<"high24h">>, Str("0")),
       Field("low_24h", <<"low24h">>, Str("0")),
       Field("volume_24h", <<"vol24h">>, Str("0")),
       Field("change_percentage", <<"changePercentage">>, Str("0")) >>

\* part_000 480-500
convertOrderFromOkx ==
    << Field("id", <<"ordId">>, Str("")),
       Field("contract", <<"instId">>, Str("")),
       Parsed("size", <<"sz">>, Str("0")),
       Parsed("price", <<"px">>, Str("0")),
       Field("tif", <<"tif">>, Str("GTC")),
       Field("isReduceOnly", <<"reduceOnly">>, Bool("false")),
       Field("autoSize", <<"autoSize">>, Str("")),
       Parsed("stopLoss", <<"slTriggerPx">>, Str("0")),
       Parsed("takeProfit", <<"tpTriggerPx">>, Str("0")),
       Field("status", <<"state">>, Str("")),
       Parsed("create_time", <<"cTime">>, Str("0")),
       Parsed("update_time", <<"uTime">>, Str("0")),
       Field("fill_price", <<"avgPx">>, Str("0")),
       Field("filled_total", <<"accFillSz">>, Str("0")),
       Field("fee", <<"fee">>, Str("0")),
       Field("fee_currency", <<"feeCcy">>, Str("")),
       Parsed("left", <<"leavesSz">>, Str("0")) >>

\* part_000 508-517
convertCandleFromOkx ==
    << Parsed("timestamp", <<"ts">>, Str("0")),
       Field("volume", <<"vol">>, Str("0")),
       Field("close", <<"c">>, Str("0")),
       Field("high", <<"h">>, Str("0")),
       Field("low", <<"l">>, Str("0")),
       Field("open", <<"o">>, Str("0")) >>

\* part_000 525-541
convertContractFromOkx ==
    << Field("id", <<"instId">>, Str("")),
       Field("name", <<"alias">>, Str("")),
       Field("contract", <<"instId">>, Str("")),
       Field("settle", <<"settleCcy">>, Str("")),
       Field("base", <<"baseCcy">>, Str("")),
       Field("quote", <<"quoteCcy">>, Str("")),
       Field("type", <<"instType">>, Str("")),
       Field("leverage_min", <<"leverMin">>, Str("1")),
       Field("leverage_max", <<"leverMax">>, Str("100")),
       Field("order_size_min", <<"minSz">>, Num("0")),
       Field("order_size_max", <<"maxLmtSz">>, Num("0")),
       Parsed("order_price_min", <<"tickSz">>, Str("0")),
       Field("order_price_max", <<>>, Num("0")) >>

\* part_000 551-560
convertAccountToOkx ==
    << Field("ccy", <<"currency">>, Str("")),
       Field("totalEq", <<"total">>, Str("0")),
       Field("availEq", <<"available">>, Str("0")),
       Field("imr", <<"position_margin", "positionMargin">>, Str("0")),
       Field("ordFroz", <<"order_margin", "orderMargin">>, Str("0")),
       Field("upl", <<"unrealised_pnl", "unrealisedPnl">>, Str("0")) >>

\* part_000 568-580
convertPositionToOkx ==
    << Field("instId", <<"contract">>, Str("")),
       Field("posSize", <<"size">>, Str("0")),
       Field("lever", <<"leverage">>, Str("1")),
       Field("avgPx", <<"entry_price", "entryPrice">>, Str("0")),
       Field("markPx", <<"mark_price", "markPrice">>, Str("0")),
       Field("liqPx", <<"liq_price", "liqPrice">>, Str("0")),
       Field("upl", <<"unrealised_pnl", "unrealisedPnl">>, Str("0")),
       Field("realisedPnl", <<"realised_pnl", "realisedPnl">>, Str("0")),
       Field("margin", <<"margin">>, Str("0")) >>

\* part_000 588-599
convertTickerToOkx ==
    << Field("instId", <<"contract">>, Str("")),
       Field("last", <<"last">>, Str("0")),
       Field("markPx", <<"mark_price", "markPrice">>, Str("0")),
       Field("idxPx", <<"index_price", "indexPrice">>, Str("0")),
       Field("high24h", <<"high_24h", "high24h">>, Str("0")),
       Field("low24h", <<"low_24h", "low24h">>, Str("0")),
       Field("vol24h", <<"volume_24h", "volume24h">>, Str("0")),
       Field("changePercentage", <<"change_percentage", "changePercentage">>, Str("0")) >>

\* part_000 607-626
convertOrderToOkx ==
    << Field("instId", <<"contract">>, Str("")),
       Field("sz", <<"size">>, Str("0")),
       Field("px", <<"price">>, Str("0")),
       Field("tif", <<"tif">>, Str("GTC")),
       Field("reduceOnly", <<"isReduceOnly", "reduceOnly", "reduce_only", "is_reduce_only">>, Bool("false")),
       Field("autoSize", <<"autoSize", "auto_size">>, Str("")),
       Field("slTriggerPx", <<"stopLoss">>, Str("0")),
       Field("tpTriggerPx", <<"takeProfit">>, Str("0")),
       Field("state", <<"status">>, Str("")),
       Field("cTime", <<"create_time", "createTime">>, Str("0")),
       Field("uTime", <<"update_time", "updateTime">>, Str("0")),
       Field("avgPx", <<"fill_price", "fillPrice">>, Str("0")),
       Field("accFillSz", <<"filled_total", "filledTotal">>, Str("0")),
       Field("fee", <<"fee">>, Str("0")),
       Field("feeCcy", <<"fee_currency", "feeCurrency">>, Str("")),
       Field("leavesSz", <<"left">>, Str("0")) >>

\* part_000 634-643
convertCandleToOkx ==
    << Field("ts", <<"timestamp">>, Str("0")),
       Field("vol", <<"volume">>, Str("0")),
       Field("c", <<"close">>, Str("0")),
       Field("h", <<"high">>, Str("0")),
       Field("l", <<"low">>, Str("0")),
       Field("o", <<"open">>, Str("0")) >>

\* part_000 651-665
convertContractToOkx ==
    << Field("instId", <<"contract">>, Str("")),
       Field("alias", <<"name">>, Str("")),
       Field("settleCcy", <<"settle">>, Str("")),
       Field("baseCcy", <<"base">>, Str("")),
       Field("quoteCcy", <<"quote">>, Str("")),
       Field("instType", <<"type">>, Str("")),
       Field("leverMin", <<"leverage_min", "leverageMin">>, Str("1")),
       Field("leverMax", <<"leverage_max", "leverageMax">>, Str("100")),
       Field("minSz", <<"order_size_min", "orderSizeMin">>, Num("0")),
       Field("maxLmtSz", <<"order_size_max", "orderSizeMax">>, Num("0")),
       Field("tickSz", <<"order_price_min", "orderPriceMin">>, Str("0")) >>

\* The object a converter returns for data.
Build(lines, data) ==
    [name \in { lines[k].field : k \in 1..Len(lines) } |->
        LET line == lines[CHOOSE k \in 1..Len(lines) : lines[k].field = name]
            value == FirstTruthy(data, line.from, line.fallback)
        IN  IF line.parse THEN ParseFloat(value) ELSE value]

\* The fields a converter reads.
FieldsRead(lines) ==
    UNION { { lines[k].from[j] : j \in 1..Len(lines[k].from) } : k \in 1..Len(lines) }

GATEIO == "gateio"
OKX == "okx"

\* convertAccount ... convertContract: the private method for the exchange.
EntityConverter(method, exchange) ==
    CASE method = "convertAccount" ->
            (IF exchange = GATEIO THEN convertAccountFromGateIo ELSE convertAccountFromOkx)
      [] method = "convertPosition" ->
            (IF exchange = GATEIO THEN convertPositionFromGateIo ELSE convertPositionFromOkx)
      [] method = "convertTicker" ->
            (IF exchange = GATEIO THEN convertTickerFromGateIo ELSE convertTickerFromOkx)
      [] method = "convertOrder" ->
            (IF exchange = GATEIO THEN convertOrderFromGateIo ELSE convertOrderFromOkx)
      [] method = "convertCandle" ->
            (IF exchange = GATEIO THEN convertCandleFromGateIo ELSE convertCandleFromOkx)
      [] OTHER ->
            (IF exchange = GATEIO THEN convertContractFromGateIo ELSE convertContractFromOkx)

EntityMethods ==
    {"convertAccount", "convertPosition", "convertTicker", "convertOrder",
     "convertCandle", "convertContract"}

\* The fields convertToOkx tests.
DiscriminatorFields ==
    {"contract", "size", "price", "leverage", "last", "total", "timestamp",
     "volume", "id", "name"}

ReturnData == "return data"

\* The branch convertToOkx takes for an object.
convertToOkx(data) ==
    LET Has(f) == f \in DOMAIN data
    IN  IF Has("contract")
           THEN IF Has("size") /\ Has("price") THEN "convertOrderToOkx"
                ELSE IF Has("leverage") THEN "convertPositionToOkx"
                ELSE ReturnData
        ELSE IF Has("last") THEN "convertTickerToOkx"
        ELSE IF Has("total") THEN "convertAccountToOkx"
        ELSE IF Has("timestamp") /\ Has("volume") THEN "convertCandleToOkx"
        ELSE IF Has("id") /\ Has("name") THEN "convertContractToOkx"
        ELSE ReturnData

\* The lines of a convert...ToOkx method.
ToOkxConverter(branch) ==
    CASE branch = "convertOrderToOkx" -> convertOrderToOkx
      [] branch = "convertPositionToOkx" -> convertPositionToOkx
      [] branch = "convertTickerToOkx" -> convertTickerToOkx
      [] branch = "convertAccountToOkx" -> convertAccountToOkx
      [] branch = "convertCandleToOkx" -> convertCandleToOkx
      [] OTHER -> convertContractToOkx

\* The subsets of F with at most n elements.
RECURSIVE SubsetsUpTo(_, _)
SubsetsUpTo(F, n) ==
    IF n = 0 THEN {{}}
    ELSE LET smaller == SubsetsUpTo(F, n - 1)
         IN  smaller \cup { T \cup {f} : T \in smaller, f \in F }

\* The payloads given to a per-entity converter, and to convertInput.
EntityPayloads(lines) ==
    UNION { [T -> FieldValues] : T \in SubsetsUpTo(FieldsRead(lines), MaxFields) }
InputPayloads == UNION { [T -> {Str("7")}] : T \in SUBSET DiscriminatorFields }

NoObject == [none \in {} |-> UndefinedValue]

\* A venue tag that is neither of the two ExchangeType members.
UnknownExchange == "binance"
ExchangeTags == {GATEIO, OKX, UnknownExchange}

\* The payload null (or undefined): a value with no property to read.
Null == [null |-> UndefinedValue]
IsNullish(data) == DOMAIN data = {"null"}

\* The fields convertFromOkx tests.
OkxDiscriminatorFields ==
    {"instId", "sz", "px", "posSize", "last", "ctMult", "totalEq", "ts", "o"}

\* The branch convertFromOkx takes for an object.
convertFromOkx(data) ==
    LET Has(f) == f \in DOMAIN data
    IN  IF Has("instId")
           THEN IF Has("sz") /\ Has("px") THEN "convertOrderFromOkx"
                ELSE IF Has("posSize") THEN "convertPositionFromOkx"
                ELSE IF Has("last") THEN "convertTickerFromOkx"
                ELSE IF Has("ctMult") THEN "convertContractFromOkx"
                ELSE ReturnData
        ELSE IF Has("totalEq") THEN "convertAccountFromOkx"
        ELSE IF Has("ts") /\ Has("o") THEN "convertCandleFromOkx"
        ELSE ReturnData

\* The lines of a convert...FromOkx method.
FromOkxConverter(branch) ==
    CASE branch = "convertOrderFromOkx" -> convertOrderFromOkx
      [] branch = "convertPositionFromOkx" -> convertPositionFromOkx
      [] branch = "convertTickerFromOkx" -> convertTickerFromOkx
      [] branch = "convertContractFromOkx" -> convertContractFromOkx
      [] branch = "convertAccountFromOkx" -> convertAccountFromOkx
      [] OTHER -> convertCandleFromOkx

OutputPayloads == UNION { [T -> {Str("7")}] : T \in SUBSET OkxDiscriminatorFields }

\* What a converter call raises.
UnsupportedExchange == "Error: Unsupported exchange"
TypeError == "TypeError: cannot read properties of null"

InitConvert ==
    /\ RetryIdle
    /\ SymbolIdle
    /\ OrderIdle
    /\ SettleIdle
    /\ StatusIdle
    /\ CancelIdle
    /\ SurfaceIdle
    /\ PositionsIdle
    /\ LateIdle
    /\ cvCall \in [method : EntityMethods \cup {"convertInput", "convertOutput"},
                   exchange : ExchangeTags]
    /\ cvData \in {Null} \cup
                  (CASE cvCall.method = "convertInput" -> InputPayloads
                     [] cvCall.method = "convertOutput" -> OutputPayloads
                     [] OTHER -> EntityPayloads(EntityConverter(cvCall.method,
                                                                cvCall.exchange)))
    /\ cvpc = "called"
    /\ cvBranch = ""
    /\ cvResult = NoObject

\* convertAccount ... convertContract
ConvertEntity ==
    /\ cvpc = "called"
    /\ cvCall.method \in EntityMethods
    /\ IF cvCall.exchange \notin {GATEIO, OKX}
          THEN cvpc' = "thrown" /\ cvBranch' = UnsupportedExchange /\ cvResult' = cvResult
          ELSE IF IsNullish(cvData)
          THEN cvpc' = "thrown" /\ cvBranch' = TypeError /\ cvResult' = cvResult
          ELSE /\ cvBranch' = cvCall.method
               /\ cvResult' = Build(EntityConverter(cvCall.method, cvCall.exchange), cvData)
               /\ cvpc' = "converted"
    /\ UNCHANGED <<cvCall, cvData>>
    /\ UNCHANGED <<retryVars, symbolVars, orderVars, settleVars, statusVars,
                   cancelVars, surfaceVars, positionVars, lateVars>>

\* convertInput: Gate.io is the canonical shape, OKX goes through convertToOkx.
ConvertInput ==
    /\ cvpc = "called"
    /\ cvCall.method = "convertInput"
    /\ IF cvCall.exchange \notin {GATEIO, OKX}
          THEN cvpc' = "thrown" /\ cvBranch' = UnsupportedExchange /\ cvResult' = cvResult
          ELSE IF cvCall.exchange = OKX /\ IsNullish(cvData)
          THEN cvpc' = "thrown" /\ cvBranch' = TypeError /\ cvResult' = cvResult
          ELSE /\ cvBranch' = IF cvCall.exchange = GATEIO THEN ReturnData
                                ELSE convertToOkx(cvData)
               /\ cvResult' = IF cvBranch' = ReturnData THEN cvData
                              ELSE Build(ToOkxConverter(cvBranch'), cvData)
               /\ cvpc' = "converted"
    /\ UNCHANGED <<cvCall, cvData>>
    /\ UNCHANGED <<retryVars, symbolVars, orderVars, settleVars, statusVars,
                   cancelVars, surfaceVars, positionVars, lateVars>>

\* convertOutput: Gate.io data is returned as it is, OKX data goes through
\* convertFromOkx.
ConvertOutput ==
    /\ cvpc = "called"
    /\ cvCall.method = "convertOutput"
    /\ IF cvCall.exchange \notin {GATEIO, OKX}
          THEN cvpc' = "thrown" /\ cvBranch' = UnsupportedExchange /\ cvResult' = cvResult
          ELSE IF cvCall.exchange = OKX /\ IsNullish(cvData)
          THEN cvpc' = "thrown" /\ cvBranch' = TypeError /\ cvResult' = cvResult
          ELSE /\ cvBranch' = IF cvCall.exchange = GATEIO THEN ReturnData
                                ELSE convertFromOkx(cvData)
               /\ cvResult' = IF cvBranch' = ReturnData THEN cvData
                              ELSE Build(FromOkxConverter(cvBranch'), cvData)
               /\ cvpc' = "converted"
    /\ UNCHANGED <<cvCall, cvData>>
    /\ UNCHANGED <<retryVars, symbolVars, orderVars, settleVars, statusVars,
                   cancelVars, surfaceVars, positionVars, lateVars>>

NextConvert == ConvertEntity \/ ConvertInput \/ ConvertOutput

SpecConvert == InitConvert /\ [][NextConvert]_vars

\* The declared zero values: "0" or "" for a string, false, 0.
IsZeroValue(x) ==
    CASE x.t = "string" -> x.v \in {"0", ""}
      [] x.t = "boolean" -> x.v = "false"
      [] x.t = "number" -> x.v = "0"
      [] OTHER -> FALSE

\* C19: a per-entity converter given a payload with no field present returns
\* an entity whose every field is defined and holds its zero value: "0" or ""
\* for a string, false for a boolean, 0 for a number.
C19_AbsentFieldsDefaultToZero ==
    (cvpc = "converted" /\ cvCall.method \in EntityMethods /\ DOMAIN cvData = {}) =>
        \A name \in DOMAIN cvResult :
            cvResult[name].t # "undefined" /\ IsZeroValue(cvResult[name])

\* The branch of the priority list: size and price, leverage, last, total,
\* timestamp and volume, id and name.
FirstDiscriminator(data) ==
    LET Has(f) == f \in DOMAIN data
    IN  IF Has("size") /\ Has("price") THEN "convertOrderToOkx"
        ELSE IF Has("leverage") THEN "convertPositionToOkx"
        ELSE IF Has("last") THEN "convertTickerToOkx"
        ELSE IF Has("total") THEN "convertAccountToOkx"
        ELSE IF Has("timestamp") /\ Has("volume") THEN "convertCandleToOkx"
        ELSE IF Has("id") /\ Has("name") THEN "convertContractToOkx"
        ELSE ReturnData

\* C20: convertInput towards OKX converts every payload by the first
\* discriminator of the priority list that its fields match; a payload with a
\* last field and neither size and price nor leverage is converted as a ticker.
C20_FirstDiscriminatorWins ==
    (cvpc = "converted" /\ cvCall.method = "convertInput" /\ cvCall.exchange = OKX) =>
        cvBranch = FirstDiscriminator(cvData)

\* C21: a converter operation given a venue tag other than gateio and okx
\* throws the unsupported-exchange error, and a converter operation throws
\* only then: with one of the two known tags no payload makes it throw.
C21_OnlyUnsupportedExchangeThrows ==
    /\ (cvpc # "called" /\ cvCall.exchange \notin {GATEIO, OKX}) =>
            cvpc = "thrown" /\ cvBranch = UnsupportedExchange
    /\ cvpc = "thrown" => cvCall.exchange \notin {GATEIO, OKX}

\* The first half alone: an unknown tag always ends in the unsupported-exchange error.
C21_UnknownTagThrows ==
    (cvpc # "called" /\ cvCall.exchange \notin {GATEIO, OKX}) =>
        cvpc = "thrown" /\ cvBranch = UnsupportedExchange

\* With a known tag, only the payload null makes a converter throw.
C21_KnownTagThrowsOnNullOnly ==
    (cvpc = "thrown" /\ cvCall.exchange \in {GATEIO, OKX}) =>
        IsNullish(cvData) /\ cvBranch = TypeError

(***************************************************************************)
(* Two concurrent placeOrder calls on one client                           *)
(***************************************************************************)

\* The two invocations.
Calls == {1, 2}

\* The parameters the two calls share.
PairRequests ==
    { r \in OrderRequests :
        /\ r.contract = BTC_USDT /\ r.size \in {10, -257} /\ r.price \in {0, 110000}
        /\ r.tif = "" /\ r.stopLoss = 0 /\ r.takeProfit = 0 }

\* The contract metadata and the tickers a read can return while the calls run.
PairContracts(v) ==
    IF v = "gate"
       THEN { c \in GateContracts :
                c.orderSizeMax = 100000 /\ c.precision = 2 /\ c.orderSizePrecision = 1 }
       ELSE { OkxContract(l) : l \in { m \in OkxMarketLimits : m.max = 100000 } }
PairTickers(v) ==
    { t \in (IF v = "gate" THEN GateTickers ELSE OkxTickers) :
        t.last = 100000 /\ t.markPrice \in {0, 100300} }

\* adjustedSize, adjustedPrice, contractInfo and markPrice held in one place
\* for both invocations.
Slot_Shared(c) == 1

\* adjustedSize, adjustedPrice, contractInfo and markPrice are local variables:
\* each invocation has its own.
Slot(c) == c

NoFrame == [info |-> NoContract, mark |-> Absent, price |-> 0, size |-> 0]
NoReads == [info |-> NoContract, mark |-> Absent, ticker |-> FALSE]

InitPair ==
    /\ EarlyIdle
    /\ ExchangeTypeIdle
    /\ pairVenue \in {"gate", "okx"}
    /\ pairParams \in PairRequests
    /\ pairPc = [c \in Calls |-> "contractInfo"]
    /\ frames = [c \in Calls |-> NoFrame]
    /\ reads = [c \in Calls |-> NoReads]
    /\ exchangeOrders = <<>>

\* getContractInfo resolves for call c: the size checks run.
PairContractInfoLoads(c) ==
    /\ pairPc[c] = "contractInfo"
    /\ \E info \in PairContracts(pairVenue) :
          LET size == IF pairVenue = "gate"
                         THEN GateClampSize(pairParams.size, info)
                         ELSE OkxClampSize(convertGateToOkxOrderParams(pairParams).size, info)
              price == pairParams.price * (MicroScale \div PriceScale)
              priced == ReadsTicker(pairVenue, pairParams.price)
              rounds == ~priced /\ pairVenue = "gate"
          IN  /\ frames' = [frames EXCEPT ![Slot(c)] =
                               [info |-> info, mark |-> @.mark,
                                price |-> IF rounds THEN GateRoundPrice(price, info) ELSE price,
                                size |-> IF rounds THEN GateRoundSize(size, info) ELSE size]]
              /\ reads' = [reads EXCEPT ![c].info = info]
              /\ pairPc' = [pairPc EXCEPT ![c] = IF priced THEN "ticker" ELSE "submit"]
    /\ UNCHANGED <<pairVenue, pairParams, exchangeOrders>>
    /\ UNCHANGED <<earlyVars, exchangeTypeVars>>

\* getContractInfo rejects for call c: the error is rethrown.
PairContractInfoFails(c) ==
    /\ pairPc[c] = "contractInfo"
    /\ pairPc' = [pairPc EXCEPT ![c] = "thrown"]
    /\ UNCHANGED <<pairVenue, pairParams, frames, reads, exchangeOrders>>
    /\ UNCHANGED <<earlyVars, exchangeTypeVars>>

\* getFuturesTicker resolves for call c: the deviation check and the rounding run.
PairTickerLoads(c) ==
    /\ pairPc[c] = "ticker"
    /\ \E t \in PairTickers(pairVenue) :
          LET f == frames[Slot(c)]
              q == convertGateToOkxOrderParams(pairParams)
              mark == IF pairVenue = "gate" THEN GateMarkPrice(t) ELSE OkxMarkPrice(t)
          IN  /\ frames' = [frames EXCEPT ![Slot(c)] =
                               IF pairVenue = "gate"
                                  THEN [info |-> f.info, mark |-> mark,
                                        price |-> GateRoundPrice(
                                            GateClampPrice(pairParams.price, pairParams.size,
                                                           mark), f.info),
                                        size |-> GateRoundSize(f.size, f.info)]
                                  ELSE [info |-> f.info, mark |-> mark,
                                        price |-> OkxRoundPrice(
                                            OkxClampPrice(q.price, q.size, mark),
                                            Deviates(q.price, mark, OkxMaxDeviation)),
                                        size |-> f.size]]
              /\ reads' = [reads EXCEPT ![c].mark = mark, ![c].ticker = TRUE]
    /\ pairPc' = [pairPc EXCEPT ![c] = "submit"]
    /\ UNCHANGED <<pairVenue, pairParams, exchangeOrders>>
    /\ UNCHANGED <<earlyVars, exchangeTypeVars>>

\* getFuturesTicker rejects for call c: GateClient rethrows, placeOrderOkx keeps
\* the requested price.
PairTickerFails(c) ==
    /\ pairPc[c] = "ticker"
    /\ pairPc' = [pairPc EXCEPT ![c] = IF pairVenue = "gate" THEN "thrown" ELSE "submit"]
    /\ UNCHANGED <<pairVenue, pairParams, frames, reads, exchangeOrders>>
    /\ UNCHANGED <<earlyVars, exchangeTypeVars>>

\* The order call c hands to createFuturesOrder / createOrder.
PairBuiltOrder(c) ==
    IF pairVenue = "gate"
       THEN GateOrder(pairParams, frames[Slot(c)].size, frames[Slot(c)].price)
       ELSE OkxOrder(convertGateToOkxOrderParams(pairParams), frames[Slot(c)].price)

\* The exchange accepts the order of call c.
PairSubmitSucceeds(c) ==
    /\ pairPc[c] = "submit"
    /\ exchangeOrders' = Append(exchangeOrders, [call |-> c, order |-> PairBuiltOrder(c)])
    /\ pairPc' = [pairPc EXCEPT ![c] = "returned"]
    /\ UNCHANGED <<pairVenue, pairParams, frames, reads>>
    /\ UNCHANGED <<earlyVars, exchangeTypeVars>>

\* The exchange rejects the order of call c: the catch block runs.
PairSubmitFails(c) ==
    /\ pairPc[c] = "submit"
    /\ exchangeOrders' = Append(exchangeOrders, [call |-> c, order |-> PairBuiltOrder(c)])
    /\ \E l \in SubmitLabels :
          pairPc' = [pairPc EXCEPT ![c] =
                        IF pairVenue = "gate"
                           /\ FallbackApplies(OrderError("createOrder", l, 0), pairParams)
                           THEN "fallback" ELSE "thrown"]
    /\ UNCHANGED <<pairVenue, pairParams, frames, reads>>
    /\ UNCHANGED <<earlyVars, exchangeTypeVars>>

\* The fallback market order of call c is accepted or rejected.
PairFallback(c) ==
    /\ pairPc[c] = "fallback"
    /\ exchangeOrders' = Append(exchangeOrders,
                                [call |-> c,
                                 order |-> GateMarketOrder(pairParams, frames[Slot(c)].size)])
    /\ \E outcome \in {"returned", "thrown"} : pairPc' = [pairPc EXCEPT ![c] = outcome]
    /\ UNCHANGED <<pairVenue, pairParams, frames, reads>>
    /\ UNCHANGED <<earlyVars, exchangeTypeVars>>

NextPair ==
    \E c \in Calls :
        \/ PairContractInfoLoads(c)
        \/ PairContractInfoFails(c)
        \/ PairTickerLoads(c)
        \/ PairTickerFails(c)
        \/ PairSubmitSucceeds(c)
        \/ PairSubmitFails(c)
        \/ PairFallback(c)

SpecPair == InitPair /\ [][NextPair]_vars

\* Call c is over.
Done(c) == pairPc[c] \in {"returned", "thrown"}

\* Every sanitization read of call c resolved.
ReadsSucceeded(c) ==
    /\ reads[c].info # NoContract
    /\ pairParams.price > 0 => reads[c].ticker

\* The orders the exchange received from call c, in order.
OrdersOf(c) == SelectSeq(exchangeOrders, LAMBDA e : e.call = c)

\* The order sanitized from the parameters and the reads of call c alone.
OwnOrder(c) ==
    LET info == reads[c].info
        mark == reads[c].mark
        requested == pairParams.price * (MicroScale \div PriceScale)
        q == convertGateToOkxOrderParams(pairParams)
    IN  IF pairVenue = "gate"
           THEN GateOrder(pairParams,
                          GateRoundSize(GateClampSize(pairParams.size, info), info),
                          GateRoundPrice(IF pairParams.price > 0
                                            THEN GateClampPrice(pairParams.price,
                                                                pairParams.size, mark)
                                            ELSE requested, info))
           ELSE OkxOrder(q, IF pairParams.price > 0
                               THEN OkxRoundPrice(OkxClampPrice(q.price, q.size, mark),
                                                  Deviates(q.price, mark, OkxMaxDeviation))
                               ELSE requested)

\* C22 as stated: when the sanitization reads of two concurrent placeOrder
\* calls with the same parameters succeed, the exchange receives exactly two
\* submissions, one from each call, under every interleaving.
C22_ExactlyTwoSubmissions ==
    (\A c \in Calls : Done(c) /\ ReadsSucceeded(c)) =>
        /\ Len(exchangeOrders) = 2
        /\ \A c \in Calls : Len(OrdersOf(c)) = 1

\* C22: two concurrent placeOrder calls with the same parameters on one client
\* are never merged or de-duplicated. Under every interleaving a call whose
\* sanitization reads succeed submits its own order, sanitized from its own
\* reads whatever the other call read; it submits nothing else except its own
\* reduce-only fallback market order on GateClient. The exchange receives one
\* order built from the request per call, and one more per fallback taken.
C22_EachCallSubmitsItsOwn ==
    /\ \A c \in Calls :
          (Done(c) /\ ReadsSucceeded(c)) =>
              /\ Len(OrdersOf(c)) \in {1, 2}
              /\ OrdersOf(c)[1].order = OwnOrder(c)
              /\ Len(OrdersOf(c)) = 2 =>
                    /\ pairVenue = "gate" /\ pairParams.reduceOnly
                    /\ OrdersOf(c)[2].order = GateMarketOrder(pairParams, OwnOrder(c).size)
    /\ \A c \in Calls : Len(OrdersOf(c)) <= 2
    /\ Len(exchangeOrders) = Len(OrdersOf(1)) + Len(OrdersOf(2))

\* Both calls returned after reading different contract metadata and different
\* mark prices, and the exchange holds two different orders, one from each.
C22_Witness ==
    /\ pairVenue = "gate" /\ pairParams.price > 0
    /\ \A c \in Calls : pairPc[c] = "returned" /\ ReadsSucceeded(c)
    /\ reads[1].info # reads[2].info /\ reads[1].mark # reads[2].mark
    /\ Len(exchangeOrders) = 2
    /\ exchangeOrders[1].call = 2 /\ exchangeOrders[2].call = 1
    /\ exchangeOrders[1].order # exchangeOrders[2].order

(***************************************************************************)
(* The two getCurrentExchangeType functions                                *)
(***************************************************************************)

\* Strings are sequences of characters.
Chars(word) ==
    CASE word = "gateio" -> <<"g", "a", "t", "e", "i", "o">>
      [] word = "gate" -> <<"g", "a", "t", "e">>
      [] word = "okx" -> <<"o", "k", "x">>
      [] word = "bybit" -> <<"b", "y", "b", "i", "t">>
      [] OTHER -> <<>>

UpperChar(c) ==
    CASE c = "g" -> "G" [] c = "a" -> "A" [] c = "t" -> "T" [] c = "e" -> "E"
      [] c = "i" -> "I" [] c = "o" -> "O" [] c = "k" -> "K" [] c = "x" -> "X"
      [] c = "b" -> "B" [] c = "y" -> "Y" [] OTHER -> c

LowerChar(c) ==
    CASE c = "G" -> "g" [] c = "A" -> "a" [] c = "T" -> "t" [] c = "E" -> "e"
      [] c = "I" -> "i" [] c = "O" -> "o" [] c = "K" -> "k" [] c = "X" -> "x"
      [] c = "B" -> "b" [] c = "Y" -> "y" [] OTHER -> c

\* String.prototype.toLowerCase, character by character.
LowerCased(str) == [k \in 1..Len(str) |-> LowerChar(str[k])]

\* The spellings of a string in every mix of upper and lower case.
RECURSIVE Spellings(_)
Spellings(str) ==
    IF str = <<>> THEN {<<>>}
    ELSE { <<c>> \o rest : c \in {Head(str), UpperChar(Head(str))},
                           rest \in Spellings(Tail(str)) }
CaseVariants(word) == Spellings(Chars(word))

\* process.env.DEFAULT_EXCHANGE: not set, or set to a string.
Unset == [set |-> FALSE, value |-> <<>>]
EnvValues ==
    {Unset} \cup
    { [set |-> TRUE, value |-> str] :
        str \in {<<>>} \cup CaseVariants("gateio") \cup CaseVariants("gate")
                \cup CaseVariants("okx") \cup {Chars("bybit")} }

\* process.env.DEFAULT_EXCHANGE?.toLowerCase()
EnvLowerCased(env) == IF env.set THEN [set |-> TRUE, value |-> LowerCased(env.value)] ELSE Unset

\* getCurrentExchangeType of the exchange configuration: an unset or empty
\* value becomes "okx"; gateio and gate give GATEIO, anything else OKX.
ConfigExchangeType(env) ==
    LET lower == EnvLowerCased(env)
        exchangeType == IF ~lower.set \/ lower.value = <<>> THEN Chars("okx") ELSE lower.value
    IN  IF exchangeType \in {Chars("gateio"), Chars("gate")} THEN GATEIO ELSE OKX

\* getCurrentExchangeType of the converter module: gateio gives GATEIO,
\* anything else OKX.
ConverterExchangeType(env) ==
    LET defaultExchange == EnvLowerCased(env)
    IN  IF defaultExchange.set /\ defaultExchange.value = Chars("gateio") THEN GATEIO ELSE OKX

InitExchangeType ==
    /\ EarlyIdle
    /\ PairIdle
    /\ DEFAULT_EXCHANGE \in EnvValues
    /\ configType = "pending"
    /\ converterType = "pending"

\* getCurrentExchangeType() of exchangeConfig.ts is called.
ConfigGetCurrentExchangeType ==
    /\ configType = "pending"
    /\ configType' = ConfigExchangeType(DEFAULT_EXCHANGE)
    /\ UNCHANGED <<DEFAULT_EXCHANGE, converterType>>
    /\ UNCHANGED <<earlyVars, pairVars>>

\* getCurrentExchangeType() of the converter module is called.
ConverterGetCurrentExchangeType ==
    /\ converterType = "pending"
    /\ converterType' = ConverterExchangeType(DEFAULT_EXCHANGE)
    /\ UNCHANGED <<DEFAULT_EXCHANGE, configType>>
    /\ UNCHANGED <<earlyVars, pairVars>>

NextExchangeType == ConfigGetCurrentExchangeType \/ ConverterGetCurrentExchangeType

SpecExchangeType == InitExchangeType /\ [][NextExchangeType]_vars

\* C30: for every value of DEFAULT_EXCHANGE (unset, empty, any spelling, an
\* unknown name) the two getCurrentExchangeType functions return the same
\* ExchangeType.
C30_SameExchangeType ==
    (configType # "pending" /\ converterType # "pending") => configType = converterType

\* The two functions agree on every value whose lowercase form is not "gate".
C30_SameUnlessGate ==
    (configType # "pending" /\ converterType # "pending"
     /\ ~(DEFAULT_EXCHANGE.set /\ LowerCased(DEFAULT_EXCHANGE.value) = Chars("gate")))
        => configType = converterType

====
